---- MODULE Spec2Model ----
(***************************************************************************)
(* Model of the Guide Engine of src/visual-guide.js (class VisualGuide):   *)
(* the single-session step state machine, its overlay DOM nodes and the    *)
(* timer continuations of its async methods.                               *)
(*                                                                         *)
(* Conventions                                                             *)
(*   - an optional JS value (null / object) is a sequence of length 0 or 1 *)
(*     (Null, Some(x));                                                    *)
(*   - a JS string that the code inspects character by character is a      *)
(*     sequence of one-character strings;                                  *)
(*   - the document is abstracted to the number of attached nodes of each  *)
(*     reserved class (dom) and the page's own elements (Page);            *)
(*   - lastOp, threw, pre and walk are history variables: which handler    *)
(*     ran last, whether it ended by throwing, a summary of the state it   *)
(*     was called on (and start's argument, or the timer that fired), and  *)
(*     the progress of an                                                  *)
(*     undisturbed start/next/next/... walk;                               *)
(*   - call records the last call of a method that only computes a result  *)
(*     (calculateBestPosition, the DOM analyzer's queries): its name, its  *)
(*     arguments and what it returned;                                     *)
(*   - pageStructureCache is the DOM analyzer's cache of getPageStructure, *)
(*     now the clock it reads and pageDocument the page it summarises.     *)
(***************************************************************************)
EXTENDS Integers, Sequences, FiniteSets, TLC

VARIABLES
    isActive,          \* this.isActive
    currentStep,       \* this.currentStep
    steps,             \* this.steps
    overlayElement,    \* this.overlayElement       (Null or Some(node))
    highlightElement,  \* this.highlightElement     (own property, see Call)
    messageElement,    \* this.messageElement
    pointerElement,    \* this.pointerElement
    controlsElement,   \* this.controlsElement
    indicatorElement,  \* this.indicatorElement
    guideHistory,      \* this.guideHistory
    dom,               \* attached nodes of each reserved class
    timers,            \* pending setTimeout continuations, in scheduling order
    dispatched,        \* synthetic actions dispatched to page elements
    lastOp,            \* history: the handler that ran last
    threw,             \* history: that handler ended with an exception
    pre,               \* history: what that handler was called on and with
    quiet,             \* the user has walked away: no input from now on
    walk,              \* history: progress of an undisturbed walk
    call,              \* history: the last call of a side-effect-free method
    pageStructureCache, \* DOMAnalyzer: this.pageStructureCache (Null or Some)
    now,               \* Date.now(), in milliseconds since the analyzer was built
    pageDocument       \* what the page holds now: its forms

vars == <<isActive, currentStep, steps, overlayElement, highlightElement,
          messageElement, pointerElement, controlsElement, indicatorElement,
          guideHistory, dom, timers, dispatched, lastOp, threw, pre, quiet, walk,
          call, pageStructureCache, now, pageDocument>>

(* the page-structure cache of the DOM analyzer, the clock and the page *)
analyzerVars == <<pageStructureCache, now, pageDocument>>

----------------------------------------------------------------------------
(* Bounds of the model *)

MaxSteps == 2          \* longest step list handed to start()
MaxTimers == 2         \* most continuations pending at once
MaxHistory == 3        \* inputs stop once the history log is this long

(* Delays of the code, in milliseconds *)
SettleDelay == 300
SkipDelay == 2000
AutoExecuteDelay == 1500
CompleteDelay == 2000

Null == <<>>
Some(x) == <<x>>
IsNull(v) == v = <<>>
Val(v) == v[1]

(* the outcome of a call: a returned value, or an exception *)
Ok(v) == [threw |-> FALSE, value |-> v]
Thrown == [threw |-> TRUE, value |-> <<>>]

----------------------------------------------------------------------------
(* Strings *)

LowerChar(c) ==
    CASE c = "G" -> "g"
      [] c = "O" -> "o"
      [] c = "K" -> "k"
      [] c = "L" -> "l"
      [] c = "T" -> "t"
      [] OTHER -> c

ToLowerCase(s) == [i \in 1..Len(s) |-> LowerChar(s[i])]

Includes(hay, needle) ==
    \E i \in 0..(Len(hay) - Len(needle)) :
        SubSeq(hay, i + 1, i + Len(needle)) = needle

----------------------------------------------------------------------------
(* The page: its elements in document order.  rect is the bounding client  *)
(* rect; display/visibility/opacity the computed style.                    *)

(* window.innerWidth / window.innerHeight *)
Viewport == [innerWidth |-> 100, innerHeight |-> 60]

El(id, tag, role, text, aria, rect, display, visibility, opacity) ==
    [id |-> id, tag |-> tag, role |-> role, textContent |-> text,
     ariaLabel |-> aria, rect |-> rect, display |-> display,
     visibility |-> visibility, opacity |-> opacity]

Rect(top, left, width, height) ==
    [top |-> top, left |-> left, width |-> width, height |-> height,
     bottom |-> top + height, right |-> left + width]

Page ==
    << El("ok",  "button", "", <<"O", "K">>, <<>>, Rect(5, 10, 20, 10),
          "block", "visible", "1"),
       El("hid", "button", "", <<"G", "O">>, <<>>, Rect(20, 10, 20, 10),
          "none", "visible", "1"),
       El("",    "a",      "", <<"g", "o", "!">>, <<"S", "i", "g", "n", " ", "i", "n">>,
          Rect(40, 60, 20, 10),
          "inline", "visible", "1"),
       El("",    "div",    "", <<"m">>, <<"M", "e", "n", "u">>, Rect(0, 0, 0, 0),
          "block", "visible", "1") >>

NoElement == 0
Elements == 1..Len(Page)

(* A selector is kept in parsed form: kind "none" is an absent selector,   *)
(* "id" is #arg, "aria" is [aria-label="arg"], "malformed" is a string     *)
(* querySelector rejects.                                                  *)
Sel(kind, arg) == [kind |-> kind, arg |-> arg]
NoSelector == Sel("none", "")

SelectorMatches(sel, el) ==
    CASE sel.kind = "id" -> el.id = sel.arg /\ sel.arg # ""
      [] sel.kind = "aria" -> el.ariaLabel = sel.arg /\ sel.arg # <<>>
      [] OTHER -> FALSE

First(S) == IF S = {} THEN NoElement ELSE CHOOSE x \in S : \A y \in S : x <= y

QuerySelector(sel) == First({e \in Elements : SelectorMatches(sel, Page[e])})

(* isElementVisible(element), for an element given by its properties *)
IsVisible(el) ==
    /\ el.rect.width > 0
    /\ el.rect.height > 0
    /\ el.display # "none"
    /\ el.visibility # "hidden"
    /\ el.opacity # "0"

(* isElementVisible(element), for an element of the page or null *)
IsElementVisible(e) == e # NoElement /\ IsVisible(Page[e])

(* the selector text findStepElement builds from step.ariaLabel *)
AriaSelector(label) == <<"[aria-label=\"">> \o label \o <<"\"]">>

(* document.querySelector of such a text: the value ends at the first      *)
(* quote, so a quote or a backslash inside the label leaves text that is   *)
(* not a selector, which querySelector throws on                           *)
QuerySelectorAria(text) ==
    LET value == SubSeq(text, 2, Len(text) - 1)
    IN  IF \E i \in 1..Len(value) : value[i] \in {"\"", "\\"}
        THEN Thrown
        ELSE Ok(QuerySelector(Sel("aria", value)))

TextTagSet(e) ==
    \/ Page[e].tag \in {"button", "a", "input", "label"}
    \/ Page[e].role = "button"

----------------------------------------------------------------------------
(* Steps *)

Step(selector, text, ariaLabel, message, description, action, value, auto) ==
    [selector |-> selector, text |-> text, ariaLabel |-> ariaLabel,
     message |-> message, description |-> description, action |-> action,
     value |-> value, autoExecute |-> auto]

StepMissing == Step(Sel("id", "missing"), <<>>, <<>>, "Gone", "", "", "", FALSE)
StepOk      == Step(Sel("id", "ok"), <<>>, <<>>, "Click OK", "", "click", "", FALSE)
StepGo      == Step(NoSelector, <<"G", "o">>, <<>>, "Type here", "then go", "type",
                    "v", TRUE)

StepPool == {StepMissing, StepOk, StepGo}

RECURSIVE SeqsUpTo(_, _)
SeqsUpTo(S, n) ==
    IF n = 0 THEN {<<>>}
    ELSE LET shorter == SeqsUpTo(S, n - 1)
         IN  shorter \cup {Append(q, x) : q \in shorter, x \in S}

StepLists == SeqsUpTo(StepPool, MaxSteps) \ {<<>>}

(* Steps handed to findStepElement on its own: every combination of a      *)
(* selector (absent, visible match, hidden match, no match, malformed), a  *)
(* text and an aria-label (absent, visible match, match without a box, no  *)
(* match, one holding a quote).                                            *)
ResolutionSteps ==
    {Step(sel, text, aria, "Here", "", "", "", FALSE) :
        sel \in {NoSelector, Sel("id", "ok"), Sel("id", "hid"),
                 Sel("id", "missing"), Sel("malformed", "")},
        text \in {<<>>, <<"G", "o">>, <<"o", "k">>, <<"z", "z">>},
        aria \in {<<>>, <<"S", "i", "g", "n", " ", "i", "n">>,
                  <<"M", "e", "n", "u">>, <<"N", "o", "p", "e">>,
                  <<"S", "a", "y", " ", "\"", "h", "i", "\"">>}}

(* findStepElement: selector, then text, then aria-label; first visible hit *)
FindBySelector(step) ==
    IF step.selector.kind \in {"none", "malformed"} THEN NoElement
    ELSE LET el == QuerySelector(step.selector)
         IN  IF IsElementVisible(el) THEN el ELSE NoElement

FindByText(step) ==
    IF step.text = <<>> THEN NoElement
    ELSE First({e \in Elements :
                  /\ TextTagSet(e)
                  /\ Includes(ToLowerCase(Page[e].textContent),
                              ToLowerCase(step.text))
                  /\ IsElementVisible(e)})

(* the aria-label query is outside any try block: what it throws leaves   *)
(* findStepElement                                                         *)
FindByAriaLabel(step) ==
    IF step.ariaLabel = <<>> THEN Ok(NoElement)
    ELSE LET found == QuerySelectorAria(AriaSelector(step.ariaLabel))
         IN  IF found.threw THEN Thrown
             ELSE IF IsElementVisible(found.value) THEN found
             ELSE Ok(NoElement)

FindStepElement(step) ==
    IF FindBySelector(step) # NoElement THEN Ok(FindBySelector(step))
    ELSE IF FindByText(step) # NoElement THEN Ok(FindByText(step))
    ELSE FindByAriaLabel(step)

(* The page does not change while a guide runs, so the engine's lookups    *)
(* are tabulated once for the steps it is ever given.                      *)
Resolution == [s \in StepPool \cup ResolutionSteps |-> FindStepElement(s)]

Resolves(step) == ~Resolution[step].threw /\ Resolution[step].value # NoElement
Unresolved(step) == Resolution[step] = Ok(NoElement)

----------------------------------------------------------------------------
(* The engine.  Handlers are operators on a record e of the object's       *)
(* fields plus the document (dom), the timer queue and the dispatch log;   *)
(* an action reads the variables into such a record, applies the handler   *)
(* and commits the result.                                                 *)

Kinds == {"overlay", "highlight", "message", "pointer", "indicator", "controls"}

Engine ==
    [isActive |-> isActive, currentStep |-> currentStep, steps |-> steps,
     overlayElement |-> overlayElement, highlightElement |-> highlightElement,
     messageElement |-> messageElement, pointerElement |-> pointerElement,
     controlsElement |-> controlsElement, indicatorElement |-> indicatorElement,
     guideHistory |-> guideHistory, dom |-> dom, timers |-> timers,
     dispatched |-> dispatched, threw |-> FALSE]

(* constructor: every field starts empty, no node exists *)
Constructed ==
    [isActive |-> FALSE, currentStep |-> 0, steps |-> <<>>,
     overlayElement |-> Null, highlightElement |-> Null,
     messageElement |-> Null, pointerElement |-> Null,
     controlsElement |-> Null, indicatorElement |-> Null,
     guideHistory |-> <<>>, dom |-> [k \in Kinds |-> 0], timers |-> <<>>,
     dispatched |-> {}, threw |-> FALSE]

(* The own properties the constructor assigns on the instance.  An own     *)
(* data property shadows a prototype method of the same name, so calling   *)
(* this.<name>(...) for such a name is a TypeError (its value is null or   *)
(* a DOM node, never a function).                                          *)
(* variant: the highlight node is kept under another field name *)
OwnPropertiesRenamed ==
    {"isActive", "currentStep", "steps", "overlayElement", "highlightBox",
     "messageElement", "pointerElement", "controlsElement", "indicatorElement",
     "guideHistory"}

OwnProperties ==
    {"isActive", "currentStep", "steps", "overlayElement", "highlightElement",
     "messageElement", "pointerElement", "controlsElement", "indicatorElement",
     "guideHistory"}

Callable(method) == method \notin OwnProperties

(* the handler ends with an uncaught exception *)
Throw(e) == [e EXCEPT !.threw = TRUE]

Append1(d, k) == [d EXCEPT ![k] = @ + 1]
Remove1(d, k) == [d EXCEPT ![k] = IF @ > 0 THEN @ - 1 ELSE 0]

(* A pending continuation: what it will run, its delay and the values it   *)
(* captured.  session is a history field: "current" if a running guide     *)
(* scheduled it and no start() has begun another one since, "earlier" if   *)
(* one has, "none" if it was scheduled while the engine was idle.          *)
Timer(kind, delay, stepIndex, step, element) ==
    [kind |-> kind, delay |-> delay, stepIndex |-> stepIndex, step |-> step,
     element |-> element, session |-> "current"]

Outdated(q) ==
    [j \in 1..Len(q) |->
        [q[j] EXCEPT !.session = IF @ = "current" THEN "earlier" ELSE @]]

SetTimeout(e, t) ==
    [e EXCEPT !.timers =
        Append(@, [t EXCEPT !.session = IF e.isActive THEN "current"
                                        ELSE "none"])]

(* variant: stop() removes the nodes without testing the fields for null *)
StopUnguarded(e) ==
    IF IsNull(e.overlayElement) \/ IsNull(e.indicatorElement)
         \/ IsNull(e.controlsElement) \/ IsNull(e.highlightElement)
         \/ IsNull(e.messageElement) \/ IsNull(e.pointerElement)
    THEN [e EXCEPT !.isActive = FALSE, !.threw = TRUE]
    ELSE [e EXCEPT !.isActive = FALSE,
                   !.overlayElement = Null, !.highlightElement = Null,
                   !.messageElement = Null, !.pointerElement = Null,
                   !.indicatorElement = Null, !.controlsElement = Null,
                   !.dom = [k \in DOMAIN e.dom |->
                               IF e.dom[k] > 0 THEN e.dom[k] - 1 ELSE 0],
                   !.steps = <<>>, !.currentStep = 0, !.guideHistory = <<>>]

(* variant: stop() forgets the control bar *)
StopLeavesControls(e) ==
    LET rm(d, field, k) == IF IsNull(field) THEN d ELSE Remove1(d, k)
        d1 == rm(e.dom, e.overlayElement, "overlay")
        d2 == rm(d1, e.highlightElement, "highlight")
        d3 == rm(d2, e.messageElement, "message")
        d4 == rm(d3, e.pointerElement, "pointer")
        d5 == rm(d4, e.indicatorElement, "indicator")
    IN  [e EXCEPT !.isActive = FALSE,
                  !.overlayElement = Null, !.highlightElement = Null,
                  !.messageElement = Null, !.pointerElement = Null,
                  !.indicatorElement = Null, !.controlsElement = Null,
                  !.dom = d5,
                  !.steps = <<>>, !.currentStep = 0, !.guideHistory = <<>>]

(* variant: stop() does not reset the step list and index *)
StopKeepsSteps(e) ==
    LET rm(d, field, k) == IF IsNull(field) THEN d ELSE Remove1(d, k)
        d1 == rm(e.dom, e.overlayElement, "overlay")
        d2 == rm(d1, e.highlightElement, "highlight")
        d3 == rm(d2, e.messageElement, "message")
        d4 == rm(d3, e.pointerElement, "pointer")
        d5 == rm(d4, e.indicatorElement, "indicator")
        d6 == rm(d5, e.controlsElement, "controls")
    IN  [e EXCEPT !.isActive = FALSE,
                  !.overlayElement = Null, !.highlightElement = Null,
                  !.messageElement = Null, !.pointerElement = Null,
                  !.indicatorElement = Null, !.controlsElement = Null,
                  !.dom = d6, !.guideHistory = <<>>]

(* stop() *)
Stop(e) ==
    LET rm(d, field, k) == IF IsNull(field) THEN d ELSE Remove1(d, k)
        d1 == rm(e.dom, e.overlayElement, "overlay")
        d2 == rm(d1, e.highlightElement, "highlight")
        d3 == rm(d2, e.messageElement, "message")
        d4 == rm(d3, e.pointerElement, "pointer")
        d5 == rm(d4, e.indicatorElement, "indicator")
        d6 == rm(d5, e.controlsElement, "controls")
    IN  [e EXCEPT !.isActive = FALSE,
                  !.overlayElement = Null, !.highlightElement = Null,
                  !.messageElement = Null, !.pointerElement = Null,
                  !.indicatorElement = Null, !.controlsElement = Null,
                  !.dom = d6,
                  !.steps = <<>>, !.currentStep = 0, !.guideHistory = <<>>]

(* createOverlay(): scrim, step indicator, control bar *)
CreateOverlay(e) ==
    [e EXCEPT !.overlayElement = Some([class |-> "dark-voir-overlay"]),
              !.indicatorElement = Some([step |-> 1, of |-> Len(e.steps)]),
              !.controlsElement = Some([prevDisabled |-> TRUE,
                                        nextLabel |-> "Next"]),
              !.dom = Append1(Append1(Append1(@, "overlay"), "indicator"),
                              "controls")]

(* variant: the Next button keeps its label at the last step *)
UpdateButtonStatesKeepsLabel(e) ==
    IF e.dom["controls"] = 0 \/ IsNull(e.controlsElement) THEN e
    ELSE [e EXCEPT !.controlsElement =
              Some([prevDisabled |-> e.currentStep = 0,
                    nextLabel |-> "Next"])]

(* updateButtonStates(): the buttons are looked up in the document by id *)
UpdateButtonStates(e) ==
    IF e.dom["controls"] = 0 \/ IsNull(e.controlsElement) THEN e
    ELSE [e EXCEPT !.controlsElement =
              Some([prevDisabled |-> e.currentStep = 0,
                    nextLabel |-> IF e.currentStep = Len(e.steps) - 1
                                  THEN "Complete" ELSE "Next"])]

(* showErrorMessage / showSuccessMessage: rewrite the bubble if there is one *)
ShowErrorMessage(e, message) ==
    IF IsNull(e.messageElement) THEN e
    ELSE [e EXCEPT !.messageElement =
              Some([Val(@) EXCEPT !.text = <<message>>,
                                  !.classes = (@ \cup {"error"}) \ {"success"}])]

ShowSuccessMessage(e, message) ==
    IF IsNull(e.messageElement) THEN e
    ELSE [e EXCEPT !.messageElement =
              Some([Val(@) EXCEPT !.text = <<message>>,
                                  !.classes = (@ \cup {"success"}) \ {"error"}])]

(* variant: complete() never schedules the stop *)
CompleteWithoutStop(e) ==
    ShowSuccessMessage(e, "Guide completed successfully!")

(* complete() *)
Complete(e) ==
    SetTimeout(ShowSuccessMessage(e, "Guide completed successfully!"),
               Timer("stop", CompleteDelay, e.currentStep, Null, NoElement))

(* variant: currentStep is assigned before the index is validated *)
ShowStepAssignFirst(e, stepIndex) ==
    IF stepIndex < 0 \/ stepIndex >= Len(e.steps)
    THEN [e EXCEPT !.currentStep = stepIndex]
    ELSE
      LET step == e.steps[stepIndex + 1]
          e1 == [e EXCEPT !.currentStep = stepIndex,
                          !.indicatorElement =
                              IF IsNull(@) THEN @
                              ELSE Some([step |-> stepIndex + 1,
                                         of |-> Len(e.steps)])]
          e2 == UpdateButtonStates(e1)
          found == Resolution[step]
          element == found.value
      IN  IF found.threw THEN Throw(e2)
          ELSE IF element = NoElement
          THEN SetTimeout(
                 ShowErrorMessage(e2, "Could not find the element. Moving to next step..."),
                 Timer("skip", SkipDelay, stepIndex, Some(step), NoElement))
          ELSE SetTimeout(e2,
                 Timer("settle", SettleDelay, stepIndex, Some(step), element))

(* showStep(stepIndex) up to its first await *)
ShowStep(e, stepIndex) ==
    IF stepIndex < 0 \/ stepIndex >= Len(e.steps) THEN e
    ELSE
      LET step == e.steps[stepIndex + 1]
          e1 == [e EXCEPT !.currentStep = stepIndex,
                          !.indicatorElement =
                              IF IsNull(@) THEN @
                              ELSE Some([step |-> stepIndex + 1,
                                         of |-> Len(e.steps)])]
          e2 == UpdateButtonStates(e1)
          found == Resolution[step]        \* this.findStepElement(step)
          element == found.value
      IN  IF found.threw THEN Throw(e2)       \* showStep rejects
          ELSE IF element = NoElement
          THEN SetTimeout(
                 ShowErrorMessage(e2, "Could not find the element. Moving to next step..."),
                 Timer("skip", SkipDelay, stepIndex, Some(step), NoElement))
          ELSE SetTimeout(e2,
                 Timer("settle", SettleDelay, stepIndex, Some(step), element))

(* variant: the last-step test is off by one *)
NextStepOffByOne(e) ==
    IF e.currentStep <= Len(e.steps) - 1
    THEN ShowStep(e, e.currentStep + 1)
    ELSE Complete(e)

(* nextStep() / previousStep() *)
NextStep(e) ==
    IF e.currentStep < Len(e.steps) - 1
    THEN ShowStep(e, e.currentStep + 1)
    ELSE Complete(e)

(* variant: at the first step previousStep() shows it again *)
PreviousStepReshowsFirst(e) ==
    IF e.currentStep > 0 THEN ShowStep(e, e.currentStep - 1)
    ELSE ShowStep(e, 0)

PreviousStep(e) ==
    IF e.currentStep > 0 THEN ShowStep(e, e.currentStep - 1) ELSE e

(* variant: a running guide is not stopped first *)
StartWithoutStop(e, newSteps) ==
    IF Len(newSteps) = 0 THEN e
    ELSE ShowStep(
           CreateOverlay([e EXCEPT !.steps = newSteps, !.currentStep = 0,
                                   !.isActive = TRUE, !.guideHistory = <<>>]),
           0)

(* variant: the list is validated before the running guide is stopped *)
StartValidateFirst(e, newSteps) ==
    IF Len(newSteps) = 0 THEN e
    ELSE LET e1 == IF e.isActive THEN Stop(e) ELSE e
         IN  ShowStep(
               CreateOverlay([e1 EXCEPT !.steps = newSteps, !.currentStep = 0,
                                        !.isActive = TRUE,
                                        !.guideHistory = <<>>]),
               0)

(* variant: the new scaffold is built before the old guide is stopped *)
StartScaffoldFirst(e, newSteps) ==
    IF Len(newSteps) = 0 THEN (IF e.isActive THEN Stop(e) ELSE e)
    ELSE LET e1 == CreateOverlay([e EXCEPT !.steps = newSteps])
             e2 == IF e.isActive THEN Stop(e1) ELSE e1
         IN  ShowStep([e2 EXCEPT !.steps = newSteps, !.currentStep = 0,
                                 !.isActive = TRUE, !.guideHistory = <<>>],
                      0)

(* start(steps); an absent list (null/undefined) is modelled as <<>> *)
Start(e, newSteps) ==
    LET e1 == IF e.isActive THEN Stop(e) ELSE e
    IN  IF Len(newSteps) = 0 THEN e1
        ELSE ShowStep(
               CreateOverlay([e1 EXCEPT !.steps = newSteps, !.currentStep = 0,
                                        !.isActive = TRUE,
                                        !.guideHistory = <<>>]),
               0)

----------------------------------------------------------------------------
(* Rendering, reached from showStep after the scroll-settle wait *)

(* calculateBestPosition(rect): sort the four directions by free space,    *)
(* descending, with the engine's stable sort, and take the first           *)
(* window is what the code reads window.innerWidth/innerHeight from *)
SpacesIn(rect, window) ==
    << [position |-> "top",    space |-> rect.top],
       [position |-> "bottom", space |-> window.innerHeight - rect.bottom],
       [position |-> "left",   space |-> rect.left],
       [position |-> "right",  space |-> window.innerWidth - rect.right] >>

Spaces(rect) == SpacesIn(rect, Viewport)

(* variant: the sort is not stable, equal keys end up reversed *)
RECURSIVE InsertDescTiesLast(_, _)
InsertDescTiesLast(x, sorted) ==
    IF sorted = <<>> THEN <<x>>
    ELSE IF Head(sorted).space - x.space <= 0
         THEN <<x>> \o sorted
         ELSE <<Head(sorted)>> \o InsertDescTiesLast(x, Tail(sorted))

RECURSIVE InsertDesc(_, _)
InsertDesc(x, sorted) ==
    IF sorted = <<>> THEN <<x>>
    ELSE IF Head(sorted).space - x.space < 0   \* comparator b.space - a.space
         THEN <<x>> \o sorted
         ELSE <<Head(sorted)>> \o InsertDesc(x, Tail(sorted))

RECURSIVE StableSortDesc(_)
StableSortDesc(list) ==
    IF list = <<>> THEN <<>>
    ELSE InsertDesc(list[Len(list)], StableSortDesc(SubSeq(list, 1, Len(list) - 1)))

BestPosition(rect, window) == StableSortDesc(SpacesIn(rect, window))[1].position

CalculateBestPosition(rect) == BestPosition(rect, Viewport)

(* highlightElement(element), the method body *)
HighlightElementMethod(e, element) ==
    IF element = NoElement THEN e
    ELSE [e EXCEPT !.dom = Append1(IF IsNull(e.highlightElement) THEN @
                                   ELSE Remove1(@, "highlight"), "highlight"),
                   !.highlightElement = Some([target |-> element])]

(* showMessage(element, message, description) *)
ShowMessage(e, element, message, description) ==
    IF element = NoElement THEN e
    ELSE [e EXCEPT !.dom = Append1(IF IsNull(e.messageElement) THEN @
                                   ELSE Remove1(@, "message"), "message"),
                   !.messageElement =
                       Some([text |-> IF description # ""
                                      THEN <<message, description>>
                                      ELSE <<message>>,
                             classes |-> {},
                             position |-> CalculateBestPosition(Page[element].rect)])]

(* showPointer(element) *)
ShowPointer(e, element) ==
    IF element = NoElement THEN e
    ELSE [e EXCEPT !.dom = Append1(IF IsNull(e.pointerElement) THEN @
                                   ELSE Remove1(@, "pointer"), "pointer"),
                   !.pointerElement = Some([target |-> element])]

(* variant: the switch is not wrapped in try/catch *)
ExecuteActionUncaught(e, element, step, fails) ==
    IF element = NoElement \/ step.action = "" THEN e
    ELSE IF step.action \in {"click", "type", "hover", "scroll", "focus"}
         THEN IF fails THEN Throw(e)
              ELSE [e EXCEPT !.dispatched = @ \cup {<<element, step.action>>}]
         ELSE e

(* executeAction(element, step) on an element whose click(), focus() or    *)
(* dispatchEvent() throws (fails) or not: errors inside are caught and     *)
(* logged                                                                  *)
ExecuteActionOn(e, element, step, fails) ==
    IF element = NoElement \/ step.action = "" THEN e
    ELSE IF step.action \in {"click", "type", "hover", "scroll", "focus"}
         THEN IF fails THEN e                     \* catch (error)
              ELSE [e EXCEPT !.dispatched = @ \cup {<<element, step.action>>}]
         ELSE e

(* executeAction(element, step) on an element of the page *)
ExecuteAction(e, element, step) == ExecuteActionOn(e, element, step, FALSE)

(* variant: the method is callable, and a highlight or bubble already on   *)
(* screen is kept instead of being replaced                                *)
AfterSettleKeepsFirst(e, t) ==
    LET step == Val(t.step)
        e1 == IF IsNull(e.highlightElement)
              THEN HighlightElementMethod(e, t.element) ELSE e
        e2 == IF IsNull(e1.messageElement)
              THEN ShowMessage(e1, t.element, step.message, step.description)
              ELSE e1
        e3 == IF step.action \in {"click", "hover", "type"}
              THEN ShowPointer(e2, t.element) ELSE e2
        e4 == [e3 EXCEPT !.guideHistory =
                   Append(@, [step |-> t.stepIndex, element |-> step])]
    IN  IF step.autoExecute
        THEN SetTimeout(e4, Timer("auto", AutoExecuteDelay, t.stepIndex,
                                  t.step, t.element))
        ELSE e4

(* showStep after `await this.sleep(300)`: lines 328-351 *)
AfterSettle(e, t) ==
    IF ~Callable("highlightElement") THEN Throw(e)   \* this.highlightElement(element)
    ELSE
      LET step == Val(t.step)
          e1 == HighlightElementMethod(e, t.element)
          e2 == ShowMessage(e1, t.element, step.message, step.description)
          e3 == IF step.action \in {"click", "hover", "type"}
                THEN ShowPointer(e2, t.element) ELSE e2
          e4 == [e3 EXCEPT !.guideHistory =
                     Append(@, [step |-> t.stepIndex, element |-> step])]
      IN  IF step.autoExecute
          THEN SetTimeout(e4, Timer("auto", AutoExecuteDelay, t.stepIndex,
                                    t.step, t.element))
          ELSE e4

(* the continuation a timer resumes *)
Continuation(e, t) ==
    CASE t.kind = "settle" -> AfterSettle(e, t)
      [] t.kind = "skip"   -> NextStep(e)                  \* return this.nextStep()
      [] t.kind = "auto"   -> ExecuteAction(e, t.element, Val(t.step))
      [] t.kind = "stop"   -> Stop(e)                      \* () => this.stop()

(* Timers fire in deadline order.  Without a clock this is kept as the     *)
(* order constraint it implies: a timer cannot fire while one scheduled    *)
(* before it with a delay no longer than its own is still pending.         *)
CanFire(q, k) == \A j \in 1..(k - 1) : q[j].delay > q[k].delay

RemoveAt(q, k) == SubSeq(q, 1, k - 1) \o SubSeq(q, k + 1, Len(q))

(* variant: the listener does not test whether a guide is running *)
KeyHandlerUnguarded(e, key) ==
    CASE key = "Escape"     -> Stop(e)
      [] key = "ArrowRight" -> NextStep(e)
      [] key = "ArrowLeft"  -> PreviousStep(e)
      [] OTHER              -> e

(* keydown listener *)
KeyHandler(e, key) ==
    IF ~e.isActive THEN e
    ELSE CASE key = "Escape"     -> Stop(e)
           [] key = "ArrowRight" -> NextStep(e)
           [] key = "ArrowLeft"  -> PreviousStep(e)
           [] OTHER              -> e

Keys == {"Escape", "ArrowRight", "ArrowLeft", "Enter"}

----------------------------------------------------------------------------
(* History of an undisturbed walk: start(steps) on a quiet engine with     *)
(* every target resolving, then nextStep() calls each made once the        *)
(* previous showStep has settled, and nothing else.                        *)

AllResolve(list) == \A i \in 1..Len(list) : Resolves(list[i])
NoneResolve(list) == \A i \in 1..Len(list) : Unresolved(list[i])

WalkStart(list) ==
    IF timers = <<>> /\ ~isActive /\ AllResolve(list)
    THEN Some([n |-> 0, len |-> Len(list), done |-> FALSE])
    ELSE Null

WalkNext ==
    IF ~IsNull(walk) /\ timers = <<>> /\ Val(walk).n < Val(walk).len
    THEN Some([Val(walk) EXCEPT !.n = @ + 1])
    ELSE Null

WalkFire(t) ==
    IF IsNull(walk) THEN Null
    ELSE IF t.kind = "stop" THEN Some([Val(walk) EXCEPT !.done = TRUE])
    ELSE walk

----------------------------------------------------------------------------
(* Actions *)

TotalNodes(d) ==
    d["overlay"] + d["highlight"] + d["message"] + d["pointer"]
      + d["indicator"] + d["controls"]

TimerOps == {"timer:settle", "timer:skip", "timer:auto", "timer:stop"}

(* arg is start's argument or, for a timer, whether it was stale when it   *)
(* fired                                                                   *)
Commit(e, op, arg, w) ==
    /\ isActive' = e.isActive
    /\ currentStep' = e.currentStep
    /\ steps' = e.steps
    /\ overlayElement' = e.overlayElement
    /\ highlightElement' = e.highlightElement
    /\ messageElement' = e.messageElement
    /\ pointerElement' = e.pointerElement
    /\ controlsElement' = e.controlsElement
    /\ indicatorElement' = e.indicatorElement
    /\ guideHistory' = e.guideHistory
    /\ dom' = e.dom
    /\ timers' = e.timers
    /\ dispatched' = e.dispatched
    /\ threw' = e.threw
    /\ lastOp' = op
    /\ pre' = [isActive |-> isActive, nodes |-> TotalNodes(dom),
               arg |-> IF op \in TimerOps THEN Null ELSE arg,
               fired |-> IF op \in TimerOps THEN arg ELSE Null]
    /\ quiet' = quiet
    /\ walk' = w
    /\ call' = call
    /\ UNCHANGED analyzerVars

(* an input is taken only while the model's bounds leave room for it *)
Room(e) == Len(e.timers) <= MaxTimers /\ Len(guideHistory) < MaxHistory

Init ==
    /\ isActive = Constructed.isActive
    /\ currentStep = Constructed.currentStep
    /\ steps = Constructed.steps
    /\ overlayElement = Constructed.overlayElement
    /\ highlightElement = Constructed.highlightElement
    /\ messageElement = Constructed.messageElement
    /\ pointerElement = Constructed.pointerElement
    /\ controlsElement = Constructed.controlsElement
    /\ indicatorElement = Constructed.indicatorElement
    /\ guideHistory = Constructed.guideHistory
    /\ dom = Constructed.dom
    /\ timers = Constructed.timers
    /\ dispatched = Constructed.dispatched
    /\ threw = FALSE
    /\ lastOp = "new"
    /\ pre = [isActive |-> FALSE, nodes |-> 0, arg |-> Null, fired |-> Null]
    /\ quiet = FALSE
    /\ walk = Null
    /\ call = [fn |-> "none"]
    /\ pageStructureCache = <<>>
    /\ now = 0
    /\ pageDocument = [forms |-> 0]

(* start(steps) with a non-empty list *)
DoStart ==
    \E list \in StepLists :
        LET e == Start([Engine EXCEPT !.timers = Outdated(timers)], list)
        IN  Room(e) /\ Commit(e, "start", Some(list), WalkStart(list))

(* start() with an empty or absent list *)
DoStartEmpty ==
    LET e == Start(Engine, <<>>)
    IN  Room(e) /\ Commit(e, "startEmpty", Null, Null)

(* stop(): the Exit button, or a direct call *)
DoStop ==
    LET e == Stop(Engine)
    IN  Room(e) /\ Commit(e, "stop", Null, Null)

(* nextStep() / previousStep(): the Next and Previous buttons, or a call *)
DoNextStep ==
    LET e == NextStep(Engine)
    IN  Room(e) /\ Commit(e, "nextStep", Null, WalkNext)

DoPreviousStep ==
    LET e == PreviousStep(Engine)
    IN  Room(e) /\ Commit(e, "previousStep", Null, Null)

(* showStep(i) called directly, with any index *)
DoShowStep ==
    \E i \in -1..MaxSteps :
        LET e == ShowStep(Engine, i)
        IN  /\ Room(e)
            /\ Commit(e, IF i < 0 \/ i >= Len(steps) THEN "showStepInvalid"
                         ELSE "showStep", Null, Null)

(* a keydown event *)
DoKeyDown ==
    \E key \in Keys :
        LET e == KeyHandler(Engine, key)
        IN  Room(e) /\ Commit(e, "key:" \o key, Null, Null)

(* A pending timer is stale when the guide that scheduled it has been      *)
(* stopped, or replaced by a new one, or has moved to another step.        *)
Stale(t) ==
    \/ t.session = "earlier"
    \/ t.session = "current" /\ (~isActive \/ t.stepIndex # currentStep)

(* a pending timer fires and its continuation runs to its next await *)
TimerFireAt(k) ==
    /\ k \in 1..Len(timers)
    /\ CanFire(timers, k)
    /\ LET e == Continuation([Engine EXCEPT !.timers = RemoveAt(timers, k)],
                             timers[k])
       IN  Commit(e, "timer:" \o timers[k].kind, Some(Stale(timers[k])),
                  WalkFire(timers[k]))

TimerFire == \E k \in 1..MaxTimers : TimerFireAt(k)

Next ==
    \/ DoStart
    \/ DoStartEmpty
    \/ DoStop
    \/ DoNextStep
    \/ DoPreviousStep
    \/ DoShowStep
    \/ DoKeyDown
    \/ TimerFire

Spec == Init /\ [][Next]_vars

(* A guide left alone: after any run of start/stop/next/previous inputs    *)
(* the user walks away, and from then on only timers fire.  The browser    *)
(* runs every timer callback eventually: the oldest pending timer is never *)
(* postponed for ever.                                                     *)
GoQuiet ==
    /\ ~quiet
    /\ quiet' = TRUE
    /\ UNCHANGED <<isActive, currentStep, steps, overlayElement,
                   highlightElement, messageElement, pointerElement,
                   controlsElement, indicatorElement, guideHistory, dom,
                   timers, dispatched, lastOp, threw, pre, walk, call>>
    /\ UNCHANGED analyzerVars

UserInput ==
    \/ DoStart
    \/ DoStop
    \/ DoNextStep
    \/ DoPreviousStep

NextAuto ==
    \/ ~quiet /\ UserInput
    \/ GoQuiet
    \/ TimerFire

AutoSpec == Init /\ [][NextAuto]_vars /\ WF_vars(TimerFireAt(1))

----------------------------------------------------------------------------
(* The DOM analyzer (class DOMAnalyzer): values, strings, keywords         *)

(* a JS value handed over as a query *)
StringValue(chars) == [type |-> "string", chars |-> chars]
NullValue == [type |-> "null"]
UndefinedValue == [type |-> "undefined"]
NumberValue(n) == [type |-> "number", value |-> n]

(* !value *)
Falsy(v) ==
    \/ v.type \in {"null", "undefined"}
    \/ v.type = "string" /\ v.chars = <<>>
    \/ v.type = "number" /\ v.value = 0

IsSpace(c) == c \in {" ", "\t"}

(* String.prototype.split(/\s+/): a leading or trailing run of white space *)
(* leaves an empty token at that end                                       *)
RECURSIVE SkipSpaces(_, _)
SkipSpaces(s, i) ==
    IF i <= Len(s) /\ IsSpace(s[i]) THEN SkipSpaces(s, i + 1) ELSE i

RECURSIVE SplitFrom(_, _, _)
SplitFrom(s, i, cur) ==
    IF i > Len(s) THEN <<cur>>
    ELSE IF IsSpace(s[i])
         THEN <<cur>> \o SplitFrom(s, SkipSpaces(s, i), <<>>)
         ELSE SplitFrom(s, i + 1, Append(cur, s[i]))

SplitWhitespace(s) == SplitFrom(s, 1, <<>>)

(* Array.prototype.join(sep) *)
RECURSIVE JoinWith(_, _)
JoinWith(words, sep) ==
    IF words = <<>> THEN <<>>
    ELSE IF Len(words) = 1 THEN words[1]
    ELSE words[1] \o sep \o JoinWith(Tail(words), sep)

(* String.prototype.trim *)
RECURSIVE TrimStart(_)
TrimStart(s) ==
    IF s # <<>> /\ IsSpace(Head(s)) THEN TrimStart(Tail(s)) ELSE s

RECURSIVE TrimEnd(_)
TrimEnd(s) ==
    IF s # <<>> /\ IsSpace(s[Len(s)]) THEN TrimEnd(SubSeq(s, 1, Len(s) - 1))
    ELSE s

Trim(s) == TrimEnd(TrimStart(s))

(* Array.prototype.slice(0, n) *)
Slice(list, n) == SubSeq(list, 1, IF Len(list) < n THEN Len(list) ELSE n)

(* commonWords of extractKeywords *)
CommonWords ==
  {
    <<"t", "h", "e">>, <<"a">>, <<"a", "n">>, <<"w", "h", "e", "r", "e">>,
    <<"i", "s">>, <<"h", "o", "w">>, <<"d", "o">>, <<"i">>, <<"t", "o">>,
    <<"c", "a", "n">>, <<"f", "i", "n", "d">>, <<"w", "h", "a", "t">>,
    <<"w", "h", "y">>, <<"w", "h", "e", "n">>, <<"w", "h", "i", "c", "h">>,
    <<"a", "n", "d">>, <<"o", "r">>, <<"n", "o", "t">>, <<"b", "u", "t">>,
    <<"m", "e">>, <<"o", "n">>, <<"i", "n">>, <<"f", "o", "r">>,
    <<"w", "i", "t", "h">>, <<"f", "r", "o", "m">>, <<"a", "s">>,
    <<"i", "f">>
  }

(* variant: the stopword list is looked up before the query is lower-cased *)
ExtractKeywordsCaseSensitive(query) ==
    IF Falsy(query) THEN Ok(<<>>)
    ELSE IF query.type # "string" THEN Thrown
    ELSE LET words == SplitWhitespace(query.chars)
             Keep(word) == word \notin CommonWords /\ Len(word) > 2
             kept == SelectSeq(words, Keep)      \* Array.prototype.filter
         IN  Ok([i \in 1..Len(kept) |-> ToLowerCase(kept[i])])

(* extractKeywords(query); a truthy value that is no string has no         *)
(* toLowerCase method                                                      *)
ExtractKeywords(query) ==
    IF Falsy(query) THEN Ok(<<>>)
    ELSE IF query.type # "string" THEN Thrown
    ELSE LET words == SplitWhitespace(ToLowerCase(query.chars))
             Keep(word) == word \notin CommonWords /\ Len(word) > 2
         IN  Ok(SelectSeq(words, Keep))          \* Array.prototype.filter

(* keywords.slice(0, 5) of findRelevantElements *)
KeywordLimit == 5
ProcessedKeywords(keywords) == Slice(keywords, KeywordLimit)

----------------------------------------------------------------------------
(* The DOM analyzer: the document it scans.  A document is the sequence of *)
(* its elements in document order; an element's identity is its position.  *)
(* Attribute and property values are strings (<<>> when absent or empty).  *)

BaseNode ==
    [tag |-> "div", type |-> "", role |-> "", id |-> <<>>, testid |-> <<>>,
     ariaLabel |-> <<>>, ariaDescribedBy |-> <<>>, name |-> <<>>,
     className |-> <<>>, classNameIsString |-> TRUE,
     textContent |-> <<>>, placeholder |-> <<>>, title |-> <<>>,
     value |-> <<>>, rect |-> Rect(10, 10, 20, 10), display |-> "block",
     visibility |-> "visible", opacity |-> "1", disabled |-> FALSE,
     onclick |-> FALSE, cursor |-> "auto"]

(* elementMatchesKeyword(element, keyword): the eight surfaces *)
ElementMatchesKeyword(el, keyword) ==
    /\ keyword # <<>>
    /\ \/ Includes(ToLowerCase(el.textContent), keyword)
       \/ Includes(ToLowerCase(el.placeholder), keyword)
       \/ Includes(ToLowerCase(el.ariaLabel), keyword)
       \/ Includes(ToLowerCase(el.title), keyword)
       \/ Includes(ToLowerCase(el.value), keyword)
       \/ Includes(ToLowerCase(el.id), keyword)
       \/ Includes(ToLowerCase(el.name), keyword)
       \/ Includes(ToLowerCase(el.ariaDescribedBy), keyword)

(* the margin around the viewport inside which an element still counts *)
ViewportMargin == 500

(* variant: the disabled attribute is not looked at *)
IsElementInteractiveIgnoresDisabled(el, window) ==
    /\ ~(el.rect.width = 0 \/ el.rect.height = 0)
    /\ el.rect.top < window.innerHeight + ViewportMargin
    /\ el.rect.bottom > -ViewportMargin
    /\ el.rect.left < window.innerWidth + ViewportMargin
    /\ el.rect.right > -ViewportMargin
    /\ ~(el.display = "none" \/ el.visibility = "hidden" \/ el.opacity = "0")

(* isElementInteractive(element) *)
IsElementInteractive(el, window) ==
    /\ ~(el.rect.width = 0 \/ el.rect.height = 0)
    /\ el.rect.top < window.innerHeight + ViewportMargin
    /\ el.rect.bottom > -ViewportMargin
    /\ el.rect.left < window.innerWidth + ViewportMargin
    /\ el.rect.right > -ViewportMargin
    /\ ~(el.display = "none" \/ el.visibility = "hidden" \/ el.opacity = "0")
    /\ ~el.disabled

(* isElementClickable(element) *)
IsElementClickable(el) ==
    \/ el.tag \in {"a", "button", "input", "select", "textarea"}
    \/ el.role \in {"button", "link", "tab", "menuitem", "checkbox", "radio"}
    \/ el.onclick
    \/ el.cursor = "pointer"

(* isElementInput(element) *)
IsElementInput(el) == el.tag \in {"input", "textarea"}

(* the five selector lists findRelevantElements queries, in its order *)
InPool(el, pool) ==
    CASE pool = 1 -> \/ el.tag = "button"
                     \/ el.tag = "input" /\ el.type \in {"button", "submit"}
                     \/ el.role = "button"
      [] pool = 2 -> el.tag = "a"
      [] pool = 3 -> el.tag \in {"input", "textarea", "select"}
      [] pool = 4 -> el.tag = "label"
      [] pool = 5 -> el.ariaLabel # <<>> \/ el.ariaDescribedBy # <<>>

PoolCount == 5

(* the nodes one querySelectorAll(...).forEach pushes for one keyword *)
ScanPool(page, window, keyword, pool) ==
    LET Hit(i) == /\ InPool(page[i], pool)
                  /\ ElementMatchesKeyword(page[i], keyword)
                  /\ IsElementInteractive(page[i], window)
    IN  SelectSeq([i \in 1..Len(page) |-> i], Hit)

RECURSIVE ScanPools(_, _, _, _)
ScanPools(page, window, keyword, pool) ==
    IF pool > PoolCount THEN <<>>
    ELSE ScanPool(page, window, keyword, pool)
           \o ScanPools(page, window, keyword, pool + 1)

RECURSIVE ScanKeywords(_, _, _)
ScanKeywords(page, window, keywords) ==
    IF keywords = <<>> THEN <<>>
    ELSE ScanPools(page, window, Head(keywords), 1)
           \o ScanKeywords(page, window, Tail(keywords))

(* variant: no duplicate is removed *)
UniqueKeepsAll(list) == list

(* [...new Set(elements)]: the first occurrence of every node, in order *)
RECURSIVE Unique(_)
Unique(list) ==
    IF list = <<>> THEN <<>>
    ELSE LET init == SubSeq(list, 1, Len(list) - 1)
             last == list[Len(list)]
         IN  IF \E i \in 1..Len(init) : init[i] = last
             THEN Unique(init)
             ELSE Append(Unique(init), last)

(* variant: the sort is not stable, equal scores end up reversed *)
RECURSIVE InsertRankedTiesLast(_, _, _)
InsertRankedTiesLast(page, x, sorted) ==
    LET Score(i) == IF IsElementClickable(page[i]) THEN 1 ELSE 0
    IN  IF sorted = <<>> THEN <<x>>
        ELSE IF Score(Head(sorted)) - Score(x) <= 0
             THEN <<x>> \o sorted
             ELSE <<Head(sorted)>> \o InsertRankedTiesLast(page, x, Tail(sorted))

(* uniqueElements.sort((a, b) => bClickable - aClickable), a stable sort *)
RECURSIVE InsertRanked(_, _, _)
InsertRanked(page, x, sorted) ==
    LET Score(i) == IF IsElementClickable(page[i]) THEN 1 ELSE 0
    IN  IF sorted = <<>> THEN <<x>>
        ELSE IF Score(Head(sorted)) - Score(x) < 0
             THEN <<x>> \o sorted
             ELSE <<Head(sorted)>> \o InsertRanked(page, x, Tail(sorted))

RECURSIVE SortByClickable(_, _)
SortByClickable(page, list) ==
    IF list = <<>> THEN <<>>
    ELSE InsertRanked(page, list[Len(list)],
                      SortByClickable(page, SubSeq(list, 1, Len(list) - 1)))

(* findRelevantElements(keywords, intent); the intent is not used *)
FindRelevantElements(page, window, keywords) ==
    SortByClickable(page,
        Unique(ScanKeywords(page, window, ProcessedKeywords(keywords))))

(* generateSelector(element): the selector text, the literal pieces of the *)
(* template strings kept whole                                             *)
GenerateSelector(el) ==
    IF el.id # <<>> THEN <<"#">> \o el.id
    ELSE IF el.testid # <<>> THEN <<"[data-testid=\"">> \o el.testid \o <<"\"]">>
    ELSE IF el.ariaLabel # <<>>
         THEN <<"[aria-label=\"">> \o el.ariaLabel \o <<"\"]">>
    ELSE IF el.name # <<>> THEN <<"[name=\"">> \o el.name \o <<"\"]">>
    ELSE IF el.className # <<>> /\ el.classNameIsString
         THEN LET classes == Slice(SplitWhitespace(Trim(el.className)), 2)
              IN  IF Len(classes) > 0
                  THEN <<el.tag>> \o <<".">> \o JoinWith(classes, <<".">>)
                  ELSE <<el.tag>>
    ELSE <<el.tag>>

(* document.querySelector(text) for a compound selector made of a tag,     *)
(* #id and .class parts.  The text is read as CSS reads it: an identifier  *)
(* ends at the next "." or "#", and one that is empty or starts with a     *)
(* digit is a syntax error, which querySelector throws.                    *)
IsDigit(ch) == ch \in {"0", "1", "2", "3", "4", "5", "6", "7", "8", "9"}

RECURSIVE IdentLen(_)
IdentLen(s) ==
    IF s = <<>> \/ Head(s) \in {"#", "."} THEN 0 ELSE 1 + IdentLen(Tail(s))

RECURSIVE ParseCompound(_)
ParseCompound(s) ==
    IF s = <<>> THEN [ok |-> TRUE, ids |-> {}, classes |-> {}]
    ELSE LET n == IdentLen(Tail(s))
             ident == SubSeq(Tail(s), 1, n)
             rest == ParseCompound(SubSeq(Tail(s), n + 1, Len(s) - 1))
         IN  IF n = 0 \/ IsDigit(ident[1]) \/ ~rest.ok
             THEN [ok |-> FALSE, ids |-> {}, classes |-> {}]
             ELSE IF Head(s) = "#"
                  THEN [rest EXCEPT !.ids = @ \cup {ident}]
                  ELSE [rest EXCEPT !.classes = @ \cup {ident}]

ClassList(el) ==
    IF el.className = <<>> THEN {}
    ELSE {w \in {SplitWhitespace(Trim(el.className))[i] :
                   i \in 1..Len(SplitWhitespace(Trim(el.className)))} :
            w # <<>>}

QuerySelectorText(page, text) ==
    LET tagLen == IdentLen(text)
        tag == SubSeq(text, 1, tagLen)
        parts == ParseCompound(SubSeq(text, tagLen + 1, Len(text)))
        Hit(i) == /\ tag = <<>> \/ tag = <<page[i].tag>>
                  /\ \A id \in parts.ids : page[i].id = id
                  /\ \A cl \in parts.classes : cl \in ClassList(page[i])
    IN  IF text = <<>> \/ ~parts.ok THEN Thrown
        ELSE Ok(First({i \in 1..Len(page) : Hit(i)}))

(* text: element.textContent.trim().substring(0, 100) *)
TextLimit == 100

(* getElementMetadata(element): the snapshot, or null when building it     *)
(* threw (className of an SVG element is an object without split); the     *)
(* path and the attribute map are left out of the snapshot                 *)
GetElementMetadata(el, window) ==
    IF el.className # <<>> /\ ~el.classNameIsString THEN Null
    ELSE Some([tagName |-> el.tag, id |-> el.id,
               text |-> Slice(Trim(el.textContent), TextLimit),
               value |-> el.value, placeholder |-> el.placeholder,
               ariaLabel |-> el.ariaLabel,
               ariaDescribedBy |-> el.ariaDescribedBy,
               role |-> el.role, type |-> el.type, name |-> el.name,
               selector |-> GenerateSelector(el),
               position |-> el.rect,
               isVisible |-> IsElementInteractive(el, window),
               isClickable |-> IsElementClickable(el),
               isInput |-> IsElementInput(el),
               isDisabled |-> el.disabled])

(* CONSTANTS.USER_INTENTS: four fixed phrase lists, in the order they are  *)
(* tested                                                                  *)
UserIntents ==
    << [intent |-> "find_element", phrases |-> {<<"w", "h", "e", "r", "e">>, <<"f", "i", "n", "d">>}],
       [intent |-> "do_action",    phrases |-> {<<"h", "o", "w", " ", "d", "o">>, <<"c", "l", "i", "c", "k">>}],
       [intent |-> "fix_error",    phrases |-> {<<"f", "i", "x">>, <<"e", "r", "r", "o", "r">>}],
       [intent |-> "explain",      phrases |-> {<<"w", "h", "a", "t">>, <<"w", "h", "y">>}] >>

(* variant: the last matching list wins *)
DetectIntentLastList(query) ==
    IF Falsy(query) THEN Ok("general")
    ELSE IF query.type # "string" THEN Thrown
    ELSE LET lowerQuery == ToLowerCase(query.chars)
             hits == {k \in 1..Len(UserIntents) :
                        \E phrase \in UserIntents[k].phrases :
                            Includes(lowerQuery, phrase)}
         IN  IF hits = {} THEN Ok("general")
             ELSE Ok(UserIntents[CHOOSE k \in hits :
                                    \A j \in hits : k >= j].intent)

(* detectIntent(query) *)
DetectIntent(query) ==
    IF Falsy(query) THEN Ok("general")
    ELSE IF query.type # "string" THEN Thrown
    ELSE LET lowerQuery == ToLowerCase(query.chars)
             hits == {k \in 1..Len(UserIntents) :
                        \E phrase \in UserIntents[k].phrases :
                            Includes(lowerQuery, phrase)}
         IN  IF hits = {} THEN Ok("general")
             ELSE Ok(UserIntents[CHOOSE k \in hits :
                                    \A j \in hits : k <= j].intent)

(* elements.slice(0, 10) of analyzeForQuery *)
ResultLimit == 10

(* variant: the last ten matches are kept *)
AnalyzeForQueryLastTen(query, page, window) ==
    IF Falsy(query) \/ query.type # "string" THEN Ok(<<>>)
    ELSE
        LET intent == DetectIntent(query)
             keywords == ExtractKeywords(query)
         IN  IF intent.threw \/ keywords.threw THEN Thrown
             ELSE LET elements == FindRelevantElements(page, window,
                                                       keywords.value)
                      top == SubSeq(elements, IF Len(elements) > ResultLimit
                                                 THEN Len(elements) - ResultLimit + 1
                                                 ELSE 1, Len(elements))
                  IN  Ok([i \in 1..Len(top) |->
                             [node |-> top[i],
                              snapshot |-> GetElementMetadata(page[top[i]],
                                                              window)]])

(* variant: only an empty query is turned away *)
AnalyzeForQueryUnguarded(query, page, window) ==
    IF Falsy(query) THEN Ok(<<>>)
    ELSE
        LET intent == DetectIntent(query)
             keywords == ExtractKeywords(query)
         IN  IF intent.threw \/ keywords.threw THEN Thrown
             ELSE LET elements == FindRelevantElements(page, window,
                                                       keywords.value)
                      top == Slice(elements, ResultLimit)
                  IN  Ok([i \in 1..Len(top) |->
                             [node |-> top[i],
                              snapshot |-> GetElementMetadata(page[top[i]],
                                                              window)]])

(* analyzeForQuery(query).  Every entry of the result is kept with the     *)
(* node it was taken from.                                                 *)
AnalyzeForQuery(query, page, window) ==
    IF Falsy(query) \/ query.type # "string" THEN Ok(<<>>)
    ELSE
        LET intent == DetectIntent(query)
             keywords == ExtractKeywords(query)
         IN  IF intent.threw \/ keywords.threw THEN Thrown
             ELSE LET elements == FindRelevantElements(page, window,
                                                       keywords.value)
                      top == Slice(elements, ResultLimit)
                  IN  Ok([i \in 1..Len(top) |->
                             [node |-> top[i],
                              snapshot |-> GetElementMetadata(page[top[i]],
                                                              window)]])

----------------------------------------------------------------------------
(* Calls of the methods that only compute a result.  They can be made at   *)
(* any time and touch no field; the specification below makes them on a    *)
(* freshly constructed engine, with arguments drawn from bounded sets.     *)

MaxCoord == 3          \* largest coordinate of a rectangle handed over

engineVars == <<isActive, currentStep, steps, overlayElement, highlightElement,
                messageElement, pointerElement, controlsElement,
                indicatorElement, guideHistory, dom, timers, dispatched,
                lastOp, threw, pre, quiet, walk>>

(* A result depends on nothing but the arguments, so a behaviour makes     *)
(* one call.                                                               *)
NoCallYet == call.fn = "none"

(* the rectangle and window of a page where the free space is              *)
(* top 50, bottom 200, left 10, right 10                                   *)
ExampleRect == Rect(50, 10, 80, 50)
ExampleWindow == [innerWidth |-> 100, innerHeight |-> 300]

Rects ==
    {Rect(t, l, w, h) : t \in 0..MaxCoord, l \in 0..MaxCoord,
                        w \in 1..2, h \in 1..2}

Windows ==
    {[innerWidth |-> w, innerHeight |-> h] : w \in {2, MaxCoord + 1},
                                             h \in {2, MaxCoord + 1}}

PositionInputs ==
    (Rects \X Windows) \cup {<<ExampleRect, ExampleWindow>>}

(* calculateBestPosition(rect) under a window of the given size *)
DoCalculateBestPosition ==
    \E in \in PositionInputs :
        /\ NoCallYet
        /\ call' = [fn |-> "calculateBestPosition", rect |-> in[1],
                    window |-> in[2], out |-> BestPosition(in[1], in[2])]
        /\ UNCHANGED <<engineVars, analyzerVars>>

(* Queries: up to MaxWords words of a small vocabulary joined by single    *)
(* blanks, queries with stray white space, queries with more keywords than *)
(* findRelevantElements looks at, and values that are no strings           *)
MaxWords == 3          \* most words of a generated query

QueryWords == {<<"T", "h", "e">>, <<"g", "o">>, <<"L", "o", "g">>,
               <<"l", "o", "g", "i", "n">>, <<"f", "o", "r">>}

Join(words) == JoinWith(words, <<" ">>)

LongQueries ==
    {Join([i \in 1..n |-> IF i % 2 = 1 THEN <<"l", "o", "g">> ELSE <<"l", "o", "g", "i", "n">>]) :
        n \in (KeywordLimit + 1)..(KeywordLimit + 2)}

StrayQueries ==
    {<<" ", "l", "o", "g", "i", "n">>,
     <<"l", "o", "g", "i", "n", " ", "\t", " ", "g", "o", " ">>,
     <<" ", " ", " ">>}

KeywordQueries ==
    {StringValue(Join(ws)) : ws \in SeqsUpTo(QueryWords, MaxWords)}
      \cup {StringValue(q) : q \in LongQueries \cup StrayQueries}
      \cup {NullValue, UndefinedValue}

(* extractKeywords(query), and the part of its result that                 *)
(* findRelevantElements goes on to search for                              *)
DoExtractKeywords ==
    \E q \in KeywordQueries :
        /\ NoCallYet
        /\ call' = [fn |-> "extractKeywords", query |-> q,
                    result |-> ExtractKeywords(q),
                    processed |-> ProcessedKeywords(ExtractKeywords(q).value)]
        /\ UNCHANGED <<engineVars, analyzerVars>>

(* Documents for the analyzer: every run of consecutive elements of one    *)
(* long document.  It starts with elements the scan must pass over (no     *)
(* match, disabled, not rendered, hidden, transparent, empty box, outside  *)
(* the margin below and above the viewport) and goes on with MaxNodes      *)
(* elements that match "log" or "login", clickable and not, one of them    *)
(* in two of the scanned lists, one an SVG element.                        *)
MaxNodes == 12         \* matching elements of the long document

OtherNodes ==
    << [BaseNode EXCEPT !.tag = "button", !.id = <<"s", "a", "v", "e">>, !.textContent = <<"S", "a", "v", "e">>],
       [BaseNode EXCEPT !.tag = "input", !.type = "submit", !.value = <<"L", "o", "g", "i", "n">>,
                        !.disabled = TRUE],
       [BaseNode EXCEPT !.tag = "button", !.textContent = <<"L", "o", "g", "i", "n">>,
                        !.display = "none"],
       [BaseNode EXCEPT !.tag = "a", !.textContent = <<"L", "o", "g", "i", "n">>,
                        !.visibility = "hidden"],
       [BaseNode EXCEPT !.tag = "button", !.textContent = <<"L", "o", "g", "i", "n">>,
                        !.opacity = "0"],
       [BaseNode EXCEPT !.tag = "button", !.textContent = <<"L", "o", "g", "i", "n">>,
                        !.rect = Rect(10, 10, 0, 0)],
       [BaseNode EXCEPT !.tag = "span", !.role = "button", !.textContent = <<"l", "o", "g", "i", "n">>,
                        !.rect = Rect(Viewport.innerHeight + ViewportMargin,
                                      10, 20, 10)],
       [BaseNode EXCEPT !.tag = "button", !.textContent = <<"L", "o", "g", "i", "n">>,
                        !.rect = Rect(-ViewportMargin - 10, 10, 20, 10)] >>

MatchingNodes ==
    << [BaseNode EXCEPT !.tag = "button", !.id = <<"l", "o", "g", "i", "n">>, !.textContent = <<"L", "o", "g", "i", "n">>],
       [BaseNode EXCEPT !.ariaLabel = <<"L", "o", "g", "i", "n", " ", "h", "e", "l", "p">>],
       [BaseNode EXCEPT !.tag = "label", !.textContent = <<"L", "o", "g", "i", "n", " ", "n", "a", "m", "e">>,
                        !.rect = Rect(Viewport.innerHeight + ViewportMargin - 1,
                                      10, 20, 10)],
       [BaseNode EXCEPT !.tag = "input", !.type = "text", !.name = <<"u", "s", "e", "r">>,
                        !.placeholder = <<"l", "o", "g", "i", "n">>, !.ariaLabel = <<"L", "o", "g", "i", "n", " ", "f", "i", "e", "l", "d">>],
       [BaseNode EXCEPT !.tag = "svg", !.ariaLabel = <<"L", "o", "g", "i", "n", " ", "i", "c", "o", "n">>, !.className = <<"i", "c", "o", "n">>,
                        !.classNameIsString = FALSE],
       [BaseNode EXCEPT !.tag = "a", !.textContent = <<"L", "o", "g", " ", "i", "n">>] >>

Document ==
    OtherNodes \o [k \in 1..MaxNodes |->
                      MatchingNodes[((k - 1) % Len(MatchingNodes)) + 1]]

AnalyzerPages ==
    {SubSeq(Document, i, j) : i \in 1..(Len(Document) + 1),
                              j \in 0..Len(Document)}

AnalyzerQueries ==
    {StringValue(q) : q \in
        {<<"l", "o", "g">>, <<"l", "o", "g", "i", "n">>, <<"f", "i", "n", "d", " ", "L", "o", "g", "i", "n">>,
         <<"l", "o", "g", "i", "n", " ", "l", "o", "g">>, <<"s", "a", "v", "e">>,
         <<"o", "n", "e", " ", "t", "w", "o", " ", "s", "i", "x", " ", "t", "e", "n", " ", "t", "a", "p", " ", "s", "a", "v", "e">>,
         <<"o", "n", "e", " ", "t", "w", "o", " ", "s", "i", "x", " ", "t", "e", "n", " ", "s", "a", "v", "e">>,
         <<>>, <<" ", " ", " ">>}}
      \cup {NullValue, UndefinedValue, NumberValue(0), NumberValue(42)}

(* analyzeForQuery(query) on a document, seen through the engine's window; *)
(* scanned is the list the scan of findRelevantElements pushed to,         *)
(* elements the list findRelevantElements returned                         *)
DoAnalyzeForQuery ==
    \E q \in AnalyzerQueries, page \in AnalyzerPages :
        /\ NoCallYet
        /\ call' = [fn |-> "analyzeForQuery", query |-> q, page |-> page,
                    scanned |-> ScanKeywords(page, Viewport,
                                    ProcessedKeywords(ExtractKeywords(q).value)),
                    elements |-> FindRelevantElements(page, Viewport,
                                     ExtractKeywords(q).value),
                    result |-> AnalyzeForQuery(q, page, Viewport)]
        /\ UNCHANGED <<engineVars, analyzerVars>>

(* Elements handed to generateSelector: every combination of an id (none, *)
(* plain, with a dot, starting with a digit), data-testid, aria-label,     *)
(* name and class attribute; alone in the document, or behind an element   *)
(* with id "user" and class "name".                                        *)
SelectorNodes ==
    {[BaseNode EXCEPT !.tag = "input", !.id = id, !.testid = testid,
                      !.ariaLabel = aria, !.name = name, !.className = cls] :
        id \in {<<>>, <<"o", "k">>, <<"u", "s", "e", "r", ".", "n", "a", "m", "e">>, <<"1", "s", "t">>},
        testid \in {<<>>, <<"s", "e", "n", "d">>}, aria \in {<<>>, <<"G", "o">>}, name \in {<<>>, <<"q">>},
        cls \in {<<>>, <<"a">>, <<"a", " ", "b", " ", "c">>, <<" ", " ">>}}

Decoy == [BaseNode EXCEPT !.id = <<"u", "s", "e", "r">>, !.className = <<"n", "a", "m", "e">>]

(* generateSelector(element), and what document.querySelector makes of an  *)
(* id selector it returned                                                 *)
DoGenerateSelector ==
    \E el \in SelectorNodes, before \in {<<>>, <<Decoy>>} :
        LET page == Append(before, el)
            selector == GenerateSelector(el)
        IN  /\ NoCallYet
            /\ call' = [fn |-> "generateSelector", page |-> page,
                        node |-> Len(page), out |-> selector,
                        resolved |-> IF selector[1] = "#"
                                     THEN Some(QuerySelectorText(page, selector))
                                     ELSE Null]
            /\ UNCHANGED <<engineVars, analyzerVars>>

(* findStepElement(step) on the page, and what start([step]) on a new      *)
(* engine has done when it yields: whether it threw, and the timers it     *)
(* left pending                                                            *)
DoFindStepElement ==
    \E step \in ResolutionSteps :
        LET e == Start(Constructed, <<step>>)
        IN  /\ NoCallYet
            /\ call' = [fn |-> "findStepElement", step |-> step,
                        result |-> FindStepElement(step),
                        started |-> [threw |-> e.threw,
                                     pending |-> [j \in 1..Len(e.timers) |->
                                                     e.timers[j].kind]]]
            /\ UNCHANGED <<engineVars, analyzerVars>>

(* Elements handed to both visibility predicates: with and without a box,  *)
(* inside the viewport, beyond its margin below, above and to the right,   *)
(* shown or hidden by each style property, enabled or disabled.            *)
VisibilityNodes ==
    {[BaseNode EXCEPT !.rect = Rect(top, left, width, height),
                      !.display = display, !.visibility = visibility,
                      !.opacity = opacity, !.disabled = disabled] :
        top \in {10, 600, -700}, left \in {10, 700},
        width \in {0, 20}, height \in {0, 10},
        display \in {"block", "none"}, visibility \in {"visible", "hidden"},
        opacity \in {"1", "0"}, disabled \in BOOLEAN}

(* VisualGuide.isElementVisible(element) and                               *)
(* DOMAnalyzer.isElementInteractive(element) on the same element           *)
DoIsElementVisible ==
    \E el \in VisibilityNodes :
        /\ NoCallYet
        /\ call' = [fn |-> "isElementVisible", node |-> el,
                    out |-> IsVisible(el),
                    interactive |-> IsElementInteractive(el, Viewport)]
        /\ UNCHANGED <<engineVars, analyzerVars>>

(* Queries handed to detectIntent: up to MaxWords of a few words, some of  *)
(* them phrases of an intent list, one in mixed case; and values that are  *)
(* no string.                                                              *)
IntentWords ==
    {<<"f", "i", "n", "d">>, <<"c", "L", "i", "c", "K", " ", "h", "e", "r", "e">>, <<"f", "i", "x">>,
     <<"w", "h", "y">>, <<"g", "o">>}

IntentQueries ==
    {StringValue(Join(ws)) : ws \in SeqsUpTo(IntentWords, MaxWords)}
      \cup {NullValue, UndefinedValue, NumberValue(42)}

(* detectIntent(query) *)
DoDetectIntent ==
    \E q \in IntentQueries :
        /\ NoCallYet
        /\ call' = [fn |-> "detectIntent", query |-> q,
                    result |-> DetectIntent(q)]
        /\ UNCHANGED <<engineVars, analyzerVars>>

(* a guide showing its only step, an autoExecute step *)
ShowingStep == Start(Constructed, <<StepGo>>)

ActionNames == {"", "click", "type", "hover", "scroll", "focus", "drag"}

(* executeAction(element, step) on a running guide, for every element of  *)
(* the page or none, every action name, and an element whose methods throw *)
(* or not; after is the engine it leaves, succeeded the engine it leaves   *)
(* when nothing throws                                                     *)
DoExecuteAction ==
    \E element \in Elements \cup {NoElement}, action \in ActionNames,
       fails \in BOOLEAN :
        LET step == [StepGo EXCEPT !.action = action]
        IN  /\ NoCallYet
            /\ call' = [fn |-> "executeAction", element |-> element,
                        action |-> action, fails |-> fails,
                        before |-> ShowingStep,
                        after |-> ExecuteActionOn(ShowingStep, element, step,
                                                  fails),
                        succeeded |-> ExecuteActionOn(ShowingStep, element,
                                                      step, FALSE)]
            /\ UNCHANGED <<engineVars, analyzerVars>>

CallNext ==
    \/ DoCalculateBestPosition
    \/ DoExtractKeywords
    \/ DoAnalyzeForQuery
    \/ DoGenerateSelector
    \/ DoFindStepElement
    \/ DoIsElementVisible
    \/ DoDetectIntent
    \/ DoExecuteAction

CallSpec == Init /\ [][CallNext]_vars

----------------------------------------------------------------------------
(* The page-structure cache of the DOM analyzer (src/unnamed/part_002).    *)
(* A JS object is the set of its <<key, value>> entries; of the summary    *)
(* getPageStructure builds, the model keeps the count of forms.            *)

CacheTimeout == 5000   \* milliseconds a cached structure is served for
MaxClock == 2          \* the clock runs up to MaxClock * CacheTimeout

MaxForms == 2          \* most forms on the page
Documents == [forms : 0..MaxForms]

(* the clock advances by about half the cache's lifetime at a time, so     *)
(* that ages just under, at and just over the lifetime all occur           *)
TickSteps ==
    {CacheTimeout \div 2 - 1, CacheTimeout \div 2, CacheTimeout \div 2 + 1}

EmptyObject == {}

(* const structure = { ..., forms: ..., ... } *)
PageStructure(doc) == {<<"forms", doc.forms>>}

(* variant: a structure exactly 5000 ms old is still served *)
GetPageStructureInclusive(cache, time, doc, fails) ==
    IF cache # Null /\ time - Val(cache).timestamp <= CacheTimeout
    THEN [result |-> Val(cache).data, cache |-> cache]
    ELSE IF fails
         THEN [result |-> EmptyObject, cache |-> cache]
         ELSE [result |-> PageStructure(doc),
               cache |-> Some([data |-> PageStructure(doc),
                               timestamp |-> time])]

(* getPageStructure() at the given time on the given page; fails: building *)
(* the structure throws.  Yields the returned object and the cache left.   *)
GetPageStructure(cache, time, doc, fails) ==
    IF cache # Null /\ time - Val(cache).timestamp < CacheTimeout
    THEN [result |-> Val(cache).data, cache |-> cache]
    ELSE IF fails
         THEN [result |-> EmptyObject, cache |-> cache]
         ELSE [result |-> PageStructure(doc),
               cache |-> Some([data |-> PageStructure(doc),
                               timestamp |-> time])]

(* clearCache(): the two maps it also clears are never written *)
ClearCache(cache) == Null

(* time passes *)
Tick ==
    \E d \in TickSteps :
        /\ now + d <= MaxClock * CacheTimeout
        /\ now' = now + d
        /\ UNCHANGED <<engineVars, call, pageStructureCache, pageDocument>>

(* the page gains or loses forms *)
PageChanges ==
    \E doc \in Documents :
        /\ doc # pageDocument
        /\ pageDocument' = doc
        /\ UNCHANGED <<engineVars, call, pageStructureCache, now>>

DoGetPageStructure ==
    \E fails \in BOOLEAN :
        LET r == GetPageStructure(pageStructureCache, now, pageDocument, fails)
        IN  /\ pageStructureCache' = r.cache
            /\ call' = [fn |-> "getPageStructure", at |-> now,
                        page |-> pageDocument, fails |-> fails,
                        before |-> pageStructureCache,
                        result |-> r.result, after |-> r.cache]
            /\ UNCHANGED <<engineVars, now, pageDocument>>

DoClearCache ==
    /\ pageStructureCache' = ClearCache(pageStructureCache)
    /\ call' = [fn |-> "clearCache", at |-> now]
    /\ UNCHANGED <<engineVars, now, pageDocument>>

CacheNext ==
    \/ Tick
    \/ PageChanges
    \/ DoGetPageStructure
    \/ DoClearCache

CacheSpec == Init /\ [][CacheNext]_vars

----------------------------------------------------------------------------
(* Properties *)

NoOverlayNodes == \A k \in Kinds : dom[k] = 0

Scaffold == [k \in Kinds |-> IF k \in {"overlay", "indicator", "controls"}
                             THEN 1 ELSE 0]

PendingKinds == {timers[j].kind : j \in 1..Len(timers)}

(* C1: immediately after any stop() - a direct call or the Exit button,    *)
(* the Escape key, or the stop that complete() scheduled - no node of any  *)
(* of the six overlay classes is left in the document.                     *)
C1_StopRemovesEveryOverlay ==
    lastOp \in {"stop", "key:Escape", "timer:stop"} => NoOverlayNodes

(* stop() ran on an active guide whose scaffold was on screen *)
C1_Witness ==
    /\ lastOp = "stop"
    /\ pre.isActive
    /\ pre.nodes >= 3
    /\ NoOverlayNodes

(* C2: while the engine is idle the document holds no overlay node; in     *)
(* particular a showStep continuation whose timer fires after stop()       *)
(* creates none.                                                           *)
C2_IdleHasNoOverlay == ~isActive => NoOverlayNodes

(* a showStep continuation fired on an engine that had been stopped *)
C2_Witness ==
    /\ lastOp \in {"timer:settle", "timer:skip"}
    /\ ~pre.isActive
    /\ ~isActive
    /\ NoOverlayNodes

(* C3: at most one node of each overlay kind is ever attached, and it is   *)
(* the one the engine's field refers to (no overlay is rendered twice).    *)
C3_OneNodePerKind ==
    /\ dom["overlay"]   = (IF IsNull(overlayElement)   THEN 0 ELSE 1)
    /\ dom["highlight"] = (IF IsNull(highlightElement) THEN 0 ELSE 1)
    /\ dom["message"]   = (IF IsNull(messageElement)   THEN 0 ELSE 1)
    /\ dom["pointer"]   = (IF IsNull(pointerElement)   THEN 0 ELSE 1)
    /\ dom["indicator"] = (IF IsNull(indicatorElement) THEN 0 ELSE 1)
    /\ dom["controls"]  = (IF IsNull(controlsElement)  THEN 0 ELSE 1)

(* a guide was started over a running one, with a continuation pending *)
C3_Witness ==
    /\ lastOp = "start"
    /\ pre.isActive
    /\ Len(timers) >= 2
    /\ dom = Scaffold

(* C4: in an undisturbed walk over N resolving steps, after the n-th       *)
(* nextStep() (n < N) the guide is active at step n; the N-th nextStep()   *)
(* leaves it at step N-1 with the completion timer of 2000 ms as the only  *)
(* pending timer; when that timer has fired the engine is idle.            *)
C4_WalkVisitsEveryStepThenStops ==
    ~IsNull(walk) =>
        LET w == Val(walk)
        IN  /\ (~w.done /\ w.n < w.len) =>
                 isActive /\ currentStep = w.n /\ Len(steps) = w.len
            /\ (~w.done /\ w.n = w.len) =>
                 /\ isActive /\ currentStep = w.len - 1
                 /\ timers = <<Timer("stop", CompleteDelay, w.len - 1, Null,
                                     NoElement)>>
                 /\ CompleteDelay = 2000
            /\ w.done => ~isActive /\ timers = <<>>

(* a walk over the longest list ran to its end *)
C4_Witness ==
    /\ ~IsNull(walk)
    /\ Val(walk).done
    /\ Val(walk).len = MaxSteps
    /\ Val(walk).n = MaxSteps

(* C5: left alone, a guide waiting at a step whose target did not resolve  *)
(* leaves that step, and a guide none of whose targets resolves becomes    *)
(* idle.                                                                   *)
UnresolvedAt(i) ==
    /\ quiet
    /\ isActive
    /\ currentStep = i
    /\ i < Len(steps)
    /\ Unresolved(steps[i + 1])
    /\ "skip" \in PendingKinds

C5_SkipForwardNeverBlocks ==
    /\ \A i \in 0..(MaxSteps - 1) :
           UnresolvedAt(i) ~> (~isActive \/ currentStep # i)
    /\ (quiet /\ isActive /\ NoneResolve(steps)) ~> ~isActive

(* the skip timer of the last step of an unresolvable list has fired and   *)
(* the completion timer is pending                                         *)
C5_Witness ==
    /\ quiet
    /\ lastOp = "timer:skip"
    /\ isActive
    /\ Len(steps) = MaxSteps
    /\ NoneResolve(steps)
    /\ currentStep = Len(steps) - 1
    /\ "stop" \in PendingKinds

(* C6: while the skip timer of the current, unresolved step is pending, an *)
(* error bubble is on screen.                                              *)
C6_ErrorBubbleWhileSkipPending ==
    (/\ isActive
     /\ currentStep < Len(steps)
     /\ Unresolved(steps[currentStep + 1])
     /\ \E j \in 1..Len(timers) :
            timers[j].kind = "skip" /\ timers[j].stepIndex = currentStep) =>
        /\ dom["message"] = 1
        /\ ~IsNull(messageElement)
        /\ "error" \in Val(messageElement).classes

(* C7: when the settle timer of an undisturbed showStep(i) has fired, the  *)
(* continuation has not thrown and exactly one highlight and one message   *)
(* node exist, the message showing steps[i].message.                       *)
C7_SettledStepIsRendered ==
    (lastOp = "timer:settle" /\ ~IsNull(walk)) =>
        /\ ~threw
        /\ dom["highlight"] = 1
        /\ dom["message"] = 1
        /\ ~IsNull(messageElement)
        /\ Val(messageElement).text[1] = steps[currentStep + 1].message

(* C8: right after start(list) on an active guide the document holds the   *)
(* new scaffold only, steps = list, currentStep = 0, isActive holds and    *)
(* the history is empty.                                                   *)
C8_RestartIsHardReset ==
    (lastOp = "start" /\ pre.isActive) =>
        /\ isActive
        /\ steps = Val(pre.arg)
        /\ currentStep = 0
        /\ guideHistory = <<>>
        /\ dom = Scaffold
        /\ IsNull(highlightElement) /\ IsNull(messageElement)
        /\ IsNull(pointerElement)
        /\ ~IsNull(indicatorElement)
        /\ Val(indicatorElement) = [step |-> 1, of |-> Len(Val(pre.arg))]

(* a guide at its second step was restarted *)
C8_Witness ==
    /\ lastOp = "start"
    /\ pre.isActive
    /\ \E j \in 1..Len(timers) : timers[j].stepIndex = 1
    /\ isActive
    /\ currentStep = 0

(* C9 as claimed: start() with an empty list changes nothing, idle or      *)
(* active.                                                                 *)
C9_StartEmptyChangesNothing ==
    [][lastOp' = "startEmpty" =>
          UNCHANGED <<isActive, steps, currentStep, guideHistory, dom,
                      overlayElement, indicatorElement, controlsElement>>]_vars

(* C9 amended: start() with an empty list changes nothing on an idle       *)
(* engine and has the effect of stop() on an active one; either way the    *)
(* engine is idle afterwards, with no pending timer added.                 *)
C9_StartEmptyStopsOrChangesNothing ==
    [][lastOp' = "startEmpty" =>
          /\ ~isActive =>
                 UNCHANGED <<isActive, steps, currentStep, guideHistory, dom,
                             overlayElement, highlightElement, messageElement,
                             pointerElement, controlsElement, indicatorElement>>
          /\ isActive =>
                 /\ ~isActive' /\ steps' = <<>> /\ currentStep' = 0
                 /\ guideHistory' = <<>>
                 /\ dom' = [k \in Kinds |-> 0]
          /\ ~isActive'
          /\ timers' = timers]_vars

(* start() with an empty list was called on an active guide *)
C9_Witness ==
    /\ lastOp = "startEmpty"
    /\ pre.isActive
    /\ pre.nodes >= 3
    /\ ~isActive

(* C10: showStep(i) with i out of range changes no field, no node and      *)
(* schedules no timer.                                                     *)
C10_InvalidIndexChangesNothing ==
    [][lastOp' = "showStepInvalid" =>
          UNCHANGED <<isActive, currentStep, steps, guideHistory, dom, timers,
                      overlayElement, highlightElement, messageElement,
                      pointerElement, controlsElement, indicatorElement,
                      dispatched>>]_vars

(* showStep was called with an invalid index on an active guide *)
C10_Witness ==
    /\ lastOp = "showStepInvalid"
    /\ pre.isActive
    /\ isActive
    /\ currentStep > 0

(* C11: stop() is idempotent.  Called on an idle engine - by a direct call  *)
(* or by the timer complete() left behind - it does not throw and leaves   *)
(* isActive, steps, currentStep, the history, the document and every node  *)
(* field as they were; and in every state stop();stop() gives the state    *)
(* stop() gives.                                                           *)
C11_StopIsIdempotent ==
    [][/\ (lastOp' \in {"stop", "timer:stop"} /\ ~isActive) =>
            /\ ~threw'
            /\ UNCHANGED <<isActive, steps, currentStep, guideHistory, dom,
                           overlayElement, highlightElement, messageElement,
                           pointerElement, controlsElement, indicatorElement,
                           dispatched>>
       /\ (lastOp' = "stop" /\ ~isActive) => timers' = timers
       /\ Stop(Stop(Engine)) = Stop(Engine)]_vars

(* stop() was called on an engine that had been started and stopped: a     *)
(* continuation of its showStep is still pending                           *)
C11_Witness ==
    /\ lastOp = "stop"
    /\ ~pre.isActive
    /\ ~isActive
    /\ ~threw
    /\ PendingKinds \cap {"settle", "skip"} # {}
    /\ NoOverlayNodes

(* C12: calculateBestPosition returns the direction with the largest free  *)
(* space, where top = rect.top, bottom = innerHeight - rect.bottom,        *)
(* left = rect.left, right = innerWidth - rect.right; when several         *)
(* directions share the largest value it returns the first of them in the  *)
(* order top, bottom, left, right.  Free spaces 50, 200, 10, 10 give       *)
(* bottom.                                                                 *)
FreeSpace(rect, window) ==
    [top    |-> rect.top,
     bottom |-> window.innerHeight - rect.bottom,
     left   |-> rect.left,
     right  |-> window.innerWidth - rect.right]

DirectionOrder == <<"top", "bottom", "left", "right">>

FirstMaximal(free) ==
    LET i == CHOOSE k \in 1..4 :
                 /\ \A j \in 1..4 : free[DirectionOrder[j]] <= free[DirectionOrder[k]]
                 /\ \A j \in 1..(k - 1) :
                        free[DirectionOrder[j]] < free[DirectionOrder[k]]
    IN  DirectionOrder[i]

C12_BestPositionIsFirstMaximum ==
    call.fn = "calculateBestPosition" =>
        /\ call.out = FirstMaximal(FreeSpace(call.rect, call.window))
        /\ (FreeSpace(call.rect, call.window)
               = [top |-> 50, bottom |-> 200, left |-> 10, right |-> 10])
             => call.out = "bottom"

(* two directions tie for the largest free space and neither is the first  *)
(* of the four: bottom and right tie, bottom is returned                   *)
C12_Witness ==
    /\ call.fn = "calculateBestPosition"
    /\ LET free == FreeSpace(call.rect, call.window)
       IN  /\ free.bottom = free.right
           /\ free.top < free.bottom
           /\ free.left < free.bottom
    /\ call.out = "bottom"

(* the rectangle of the example was handed over *)
C12_WitnessExample ==
    /\ call.fn = "calculateBestPosition"
    /\ FreeSpace(call.rect, call.window)
         = [top |-> 50, bottom |-> 200, left |-> 10, right |-> 10]
    /\ call.out = "bottom"

(* C15 as claimed: the output of extractKeywords contains no stopword and   *)
(* no token of length <= 2, has length at most 5, and lists the query's    *)
(* tokens lower-cased in the order they occur.                             *)
TokenAt(s, i) ==
    LET j == CHOOSE k \in i..Len(s) :
                 /\ \A m \in i..k : ~IsSpace(s[m])
                 /\ (k = Len(s) \/ IsSpace(s[k + 1]))
    IN  SubSeq(s, i, j)

RECURSIVE TokensFrom(_, _)
TokensFrom(s, starts) ==
    IF starts = {} THEN <<>>
    ELSE LET m == CHOOSE x \in starts : \A y \in starts : x <= y
         IN  <<TokenAt(s, m)>> \o TokensFrom(s, starts \ {m})

(* the maximal runs of non-blank characters, lower-cased, left to right,   *)
(* without the stopwords and the runs of one or two characters             *)
ExpectedKeywords(s) ==
    LET starts == {i \in 1..Len(s) :
                      ~IsSpace(s[i]) /\ (i = 1 \/ IsSpace(s[i - 1]))}
        tokens == TokensFrom(s, starts)
        lower == [i \in 1..Len(tokens) |-> ToLowerCase(tokens[i])]
        Good(w) == w \notin CommonWords /\ Len(w) > 2
    IN  SelectSeq(lower, Good)

KeywordsWellFormed ==
    LET out == call.result.value
    IN  /\ ~call.result.threw
        /\ \A i \in 1..Len(out) :
               /\ out[i] \notin CommonWords
               /\ Len(out[i]) > 2
               /\ out[i] = ToLowerCase(out[i])
        /\ call.query.type = "string" => out = ExpectedKeywords(call.query.chars)
        /\ call.query.type # "string" => out = <<>>

C15_KeywordsAtMostFive ==
    call.fn = "extractKeywords" =>
        /\ KeywordsWellFormed
        /\ Len(call.result.value) <= 5

(* C15 amended: the output of extractKeywords contains no stopword and no  *)
(* token of length <= 2 and lists the query's tokens lower-cased in the    *)
(* order they occur, a repeated word repeated; its length is not bounded.  *)
(* The bound of 5 is applied by findRelevantElements, which searches for   *)
(* the first 5 of them only.                                               *)
C15_KeywordsFilteredFirstFiveSearched ==
    call.fn = "extractKeywords" =>
        /\ KeywordsWellFormed
        /\ Len(call.processed) <= 5
        /\ Len(call.processed) = 5 \/ call.processed = call.result.value
        /\ \A i \in 1..Len(call.processed) :
               call.processed[i] = call.result.value[i]

(* a query with more than five keywords, among them a repeated one *)
C15_Witness ==
    /\ call.fn = "extractKeywords"
    /\ Len(call.result.value) > 5
    /\ Len(call.processed) = 5
    /\ call.result.value[1] = call.result.value[3]

(* C13: analyzeForQuery returns at most 10 candidates, and they are the    *)
(* first 10 (or all, if fewer) of the ranked match list, in ranked order.  *)
RankedMatches ==
    FindRelevantElements(call.page, Viewport,
                         ExtractKeywords(call.query).value)

C13_ResultIsTopTenOfRanking ==
    call.fn = "analyzeForQuery" =>
        /\ Len(call.result.value) <= 10
        /\ (call.query.type = "string" /\ ~call.result.threw) =>
               LET out == call.result.value
               IN  /\ Len(out) = (IF Len(RankedMatches) < 10
                                  THEN Len(RankedMatches) ELSE 10)
                   /\ \A i \in 1..Len(out) : out[i].node = RankedMatches[i]

(* more than ten elements matched; the ten returned end with a             *)
(* non-clickable one while a match behind it was cut off                   *)
C13_Witness ==
    /\ call.fn = "analyzeForQuery"
    /\ call.query.type = "string"
    /\ Len(RankedMatches) > 10
    /\ Len(call.result.value) = 10
    /\ IsElementClickable(call.page[call.result.value[1].node])
    /\ ~IsElementClickable(call.page[call.result.value[10].node])

(* C14: analyzeForQuery never throws and always returns a list; for an     *)
(* empty string, null, undefined or a value that is no string the list is  *)
(* empty.                                                                  *)
C14_AnalyzeFailsSoft ==
    call.fn = "analyzeForQuery" =>
        /\ ~call.result.threw
        /\ DOMAIN call.result.value = 1..Len(call.result.value)
        /\ (call.query.type # "string" \/ call.query = StringValue(<<>>)) =>
               call.result.value = <<>>

(* a number was handed over as the query, on a document with matches *)
C14_Witness ==
    /\ call.fn = "analyzeForQuery"
    /\ call.query = NumberValue(42)
    /\ Len(call.page) > Len(OtherNodes)
    /\ call.result = Ok(<<>>)

(* C16: every candidate analyzeForQuery returns has a box of non-zero      *)
(* width and height, lies within the viewport extended by 500px on every   *)
(* side, is not display:none, visibility:hidden or opacity 0 and is not    *)
(* disabled; its snapshot, if one was taken, says so.                      *)
C16_CandidatesAreInteractive ==
    call.fn = "analyzeForQuery" =>
        \A i \in 1..Len(call.result.value) :
            LET el == call.page[call.result.value[i].node]
                snapshot == call.result.value[i].snapshot
            IN  /\ el.rect.width # 0 /\ el.rect.height # 0
                /\ el.rect.top < Viewport.innerHeight + 500
                /\ el.rect.bottom > -500
                /\ el.rect.left < Viewport.innerWidth + 500
                /\ el.rect.right > -500
                /\ el.display # "none"
                /\ el.visibility # "hidden"
                /\ el.opacity # "0"
                /\ ~el.disabled
                /\ ~IsNull(snapshot) => Val(snapshot).isVisible

(* the document held a matching element failing each of the conditions,    *)
(* and candidates were returned                                            *)
C16_Witness ==
    /\ call.fn = "analyzeForQuery"
    /\ call.query = StringValue(<<"l", "o", "g", "i", "n">>)
    /\ \A k \in 2..Len(OtherNodes) :
           \E n \in 1..Len(call.page) :
               /\ call.page[n] = OtherNodes[k]
               /\ ElementMatchesKeyword(OtherNodes[k], <<"l", "o", "g", "i", "n">>)
    /\ Len(call.result.value) >= 3

(* C17: generateSelector picks #id, else [data-testid], else [aria-label],  *)
(* else [name], else the tag with at most 2 classes; for an element with   *)
(* an id it returns #id, and document.querySelector resolves that selector *)
(* to the same element.                                                    *)
SelectorFollowsPriority ==
    LET el == call.page[call.node]
        out == call.out
        Dots == Cardinality({i \in 1..Len(out) : out[i] = "."})
    IN  /\ el.id # <<>> => out = <<"#">> \o el.id
        /\ (el.id = <<>> /\ el.testid # <<>>) =>
               out = <<"[data-testid=\"">> \o el.testid \o <<"\"]">>
        /\ (el.id = <<>> /\ el.testid = <<>> /\ el.ariaLabel # <<>>) =>
               out = <<"[aria-label=\"">> \o el.ariaLabel \o <<"\"]">>
        /\ (el.id = <<>> /\ el.testid = <<>> /\ el.ariaLabel = <<>>
              /\ el.name # <<>>) =>
               out = <<"[name=\"">> \o el.name \o <<"\"]">>
        /\ (el.id = <<>> /\ el.testid = <<>> /\ el.ariaLabel = <<>>
              /\ el.name = <<>>) =>
               out[1] = el.tag /\ Dots <= 2

C17_IdSelectorRoundTrip ==
    call.fn = "generateSelector" =>
        /\ SelectorFollowsPriority
        /\ call.page[call.node].id # <<>> =>
               /\ call.out = <<"#">> \o call.page[call.node].id
               /\ call.resolved = Some(Ok(call.node))

(* the timer that has just fired was stale when it fired *)
FiredStale == Val(pre'.fired)

(* C18: when the continuation of showStep(i) resumes after its wait and    *)
(* the guide is no longer at step i of the session that scheduled it, it   *)
(* creates no highlight, message or pointer and appends nothing to the     *)
(* history.                                                                *)
C18_StaleSettleRendersNothing ==
    [][(lastOp' = "timer:settle" /\ FiredStale) =>
          UNCHANGED <<dom, highlightElement, messageElement, pointerElement,
                      guideHistory>>]_vars

(* Next was pressed during the wait of showStep(0): its continuation       *)
(* resumed with the guide at step 1                                        *)
C18_Witness ==
    /\ lastOp = "timer:settle"
    /\ Val(pre.fired)
    /\ isActive
    /\ currentStep = 1
    /\ timers = <<Timer("settle", SettleDelay, 1, Some(steps[2]),
                        Resolution[steps[2]].value)>>
    /\ dom = Scaffold

(* C19: when the timer complete() scheduled fires and the guide that       *)
(* scheduled it has been replaced by a new one, or has moved to another    *)
(* step, the running guide is not stopped.                                 *)
C19_StaleCompletionLeavesGuideRunning ==
    [][(lastOp' = "timer:stop" /\ isActive /\ FiredStale) =>
          /\ isActive'
          /\ UNCHANGED <<steps, currentStep, dom>>]_vars

(* C20: when the nextStep() of the skip-forward recovery of step i is      *)
(* issued and the guide that scheduled it has been stopped or replaced, or *)
(* is no longer at step i, it neither changes currentStep nor completes    *)
(* the guide: it schedules nothing.                                        *)
C20_StaleSkipForwardDoesNothing ==
    [][(lastOp' = "timer:skip" /\ FiredStale) =>
          /\ currentStep' = currentStep
          /\ isActive' = isActive
          /\ \A j \in 1..Len(timers') : timers'[j] \in
                 {timers[i] : i \in 1..Len(timers)}]_vars

C22_ActiveIndexInRange ==
    isActive => (Len(steps) > 0 /\ 0 <= currentStep /\ currentStep < Len(steps))

(* a stale skip-forward has moved the running guide to its second step *)
C22_Witness ==
    /\ isActive
    /\ lastOp = "timer:skip"
    /\ Val(pre.fired)
    /\ currentStep = 1

(* the handlers that call nextStep(), previousStep() and stop() *)
NextStepOps == {"nextStep", "key:ArrowRight", "timer:skip"}
PreviousStepOps == {"previousStep", "key:ArrowLeft"}
StopOps == {"stop", "key:Escape", "timer:stop"}

(* showStep(i) has run up to its first wait: the indicator reads step i+1  *)
(* and the continuation for step i is the newest pending timer             *)
ShownNext(i) ==
    /\ currentStep' = i
    /\ indicatorElement' = Some([step |-> i + 1, of |-> Len(steps)])
    /\ timers' # <<>>
    /\ timers'[Len(timers')].kind \in {"settle", "skip"}
    /\ timers'[Len(timers')].stepIndex = i
    /\ steps' = steps

(* C23: nextStep() on an active guide at step i moves to step i+1 and      *)
(* shows it when i is not the last index; at the last index it calls       *)
(* complete() and leaves currentStep alone; it never advances by more than *)
(* one.                                                                    *)
C23_NextStepAdvancesByOne ==
    [][(lastOp' \in NextStepOps /\ isActive) =>
          /\ currentStep < Len(steps) - 1 => ShownNext(currentStep + 1)
          /\ currentStep >= Len(steps) - 1 =>
                 /\ currentStep' = currentStep
                 /\ timers' # <<>>
                 /\ timers'[Len(timers')].kind = "stop"
          /\ currentStep' <= currentStep + 1]_vars

(* Next pressed at step 0 of a two-step guide *)
C23_Witness ==
    /\ lastOp = "nextStep"
    /\ pre.isActive
    /\ isActive
    /\ currentStep = 1
    /\ indicatorElement = Some([step |-> 2, of |-> 2])

(* C24: previousStep() on an active guide at step i > 0 moves to step i-1  *)
(* and shows it; at step 0 it changes nothing and schedules nothing.       *)
C24_PreviousStepBackOrNothing ==
    [][(lastOp' \in PreviousStepOps /\ isActive) =>
          /\ currentStep > 0 => ShownNext(currentStep - 1)
          /\ currentStep = 0 =>
                 UNCHANGED <<isActive, currentStep, steps, overlayElement,
                             highlightElement, messageElement, pointerElement,
                             controlsElement, indicatorElement, guideHistory,
                             dom, timers, dispatched>>]_vars

(* Previous pressed at step 0 with nothing pending *)
C24_Witness ==
    /\ lastOp = "previousStep"
    /\ pre.isActive
    /\ isActive
    /\ currentStep = 0
    /\ timers = <<>>

(* C25: when stop() returns the engine is idle with no steps, index 0 and  *)
(* an empty history, whatever state it was called in.                      *)
C25_StopResetsSession ==
    [][(lastOp' \in StopOps /\ (lastOp' = "key:Escape" => isActive)) =>
          /\ ~isActive'
          /\ steps' = <<>>
          /\ currentStep' = 0
          /\ guideHistory' = <<>>]_vars

(* the timer of complete() stopped a running guide *)
C25_Witness ==
    /\ lastOp = "timer:stop"
    /\ pre.isActive
    /\ ~isActive
    /\ steps = <<>>
    /\ currentStep = 0

(* C26: when the continuation of showStep(i) resumes with the guide still  *)
(* at step i, exactly one entry with step index i is appended to the       *)
(* history and the earlier entries are kept.                               *)
C26_ShownStepIsLogged ==
    [][(lastOp' = "timer:settle" /\ ~FiredStale) =>
          /\ Len(guideHistory') = Len(guideHistory) + 1
          /\ SubSeq(guideHistory', 1, Len(guideHistory)) = guideHistory
          /\ guideHistory'[Len(guideHistory')].step = currentStep]_vars

(* C27: while the engine is active the indicator reads step currentStep+1  *)
(* of Len(steps), Previous is disabled exactly at step 0 and Next is       *)
(* labelled Complete exactly at the last step.                             *)
C27_ControlsMatchIndex ==
    isActive =>
        /\ indicatorElement = Some([step |-> currentStep + 1, of |-> Len(steps)])
        /\ controlsElement =
               Some([prevDisabled |-> currentStep = 0,
                     nextLabel |-> IF currentStep = Len(steps) - 1
                                   THEN "Complete" ELSE "Next"])

(* a one-step guide right after start() *)
C27_Witness ==
    /\ isActive
    /\ lastOp = "start"
    /\ Len(steps) = 1
    /\ controlsElement = Some([prevDisabled |-> TRUE, nextLabel |-> "Complete"])

(* what each criterion of a step yields on the page: the first element    *)
(* matching the selector, the first visible element of the tag set whose   *)
(* text contains the step's text, the first element carrying the label     *)
SelectorCandidate(step) ==
    IF step.selector.kind = "id"
    THEN First({e \in Elements : Page[e].id = step.selector.arg})
    ELSE NoElement

TextCandidate(step) ==
    IF step.text = <<>> THEN NoElement
    ELSE First({e \in Elements :
                  /\ TextTagSet(e)
                  /\ Includes(ToLowerCase(Page[e].textContent),
                              ToLowerCase(step.text))
                  /\ IsVisible(Page[e])})

AriaCandidate(step) ==
    IF step.ariaLabel = <<>> THEN NoElement
    ELSE First({e \in Elements : Page[e].ariaLabel = step.ariaLabel})

IfVisible(e) == IF e # NoElement /\ IsVisible(Page[e]) THEN e ELSE NoElement

ExpectedElement(step) ==
    IF IfVisible(SelectorCandidate(step)) # NoElement
    THEN IfVisible(SelectorCandidate(step))
    ELSE IF TextCandidate(step) # NoElement THEN TextCandidate(step)
    ELSE IfVisible(AriaCandidate(step))

(* C28: findStepElement returns the visible candidate of the first of      *)
(* selector, text, aria-label that has one, and reports failure (null)     *)
(* exactly when none has.                                                  *)
C28_ResolutionFollowsOrder ==
    call.fn = "findStepElement" =>
        call.result = Ok(ExpectedElement(call.step))

(* C29: findStepElement never throws, and when it finds nothing showStep   *)
(* goes on to the skip-forward recovery instead of rejecting.              *)
C29_QueryErrorsAreNoMatch ==
    call.fn = "findStepElement" =>
        /\ ~call.result.threw
        /\ call.result = Ok(NoElement) =>
               call.started = [threw |-> FALSE, pending |-> <<"skip">>]
        /\ ~call.started.threw

(* C30: isElementVisible accepts an element exactly when                   *)
(* isElementInteractive accepts it.                                        *)
C30_VisibleIffInteractive ==
    call.fn = "isElementVisible" => (call.out = call.interactive)

(* the step the running guide is at, and the element it resolves to *)
CurrentStepRecord == steps[currentStep + 1]
CurrentTarget == Resolution[CurrentStepRecord].value

(* the bubble text showMessage writes for a step *)
MessageText(step) ==
    IF step.description # "" THEN <<step.message, step.description>>
    ELSE <<step.message>>

(* C31: when the continuation of showStep(i) has run with the guide still  *)
(* at step i, a pointer is on screen exactly if the step's action is       *)
(* click, hover or type, and the highlight and the bubble on screen are    *)
(* those of step i.                                                        *)
C31_RenderedStepOwnsOverlays ==
    [][(lastOp' = "timer:settle" /\ ~FiredStale /\ isActive) =>
          /\ (dom'["pointer"] = 1) <=>
                 (CurrentStepRecord.action \in {"click", "hover", "type"})
          /\ dom'["highlight"] = 1
          /\ highlightElement' = Some([target |-> CurrentTarget])
          /\ dom'["message"] = 1
          /\ ~IsNull(messageElement')
          /\ Val(messageElement').text = MessageText(CurrentStepRecord)]_vars

(* the engine's fields and document after a step *)
EngineNext ==
    [isActive |-> isActive', currentStep |-> currentStep', steps |-> steps',
     overlayElement |-> overlayElement', highlightElement |-> highlightElement',
     messageElement |-> messageElement', pointerElement |-> pointerElement',
     controlsElement |-> controlsElement',
     indicatorElement |-> indicatorElement', guideHistory |-> guideHistory',
     dom |-> dom', timers |-> timers', dispatched |-> dispatched',
     threw |-> threw']

(* C33: a keydown of Escape, ArrowRight or ArrowLeft on an idle engine     *)
(* changes no field and no node; on an active guide Escape does what       *)
(* stop() does, ArrowRight what nextStep() does and ArrowLeft what         *)
(* previousStep() does.                                                    *)
C33_ShortcutsOnlyWhenActive ==
    [][/\ (lastOp' \in {"key:Escape", "key:ArrowRight", "key:ArrowLeft"}
             /\ ~isActive) => EngineNext = Engine
       /\ (lastOp' = "key:Escape" /\ isActive) => EngineNext = Stop(Engine)
       /\ (lastOp' = "key:ArrowRight" /\ isActive) =>
              EngineNext = NextStep(Engine)
       /\ (lastOp' = "key:ArrowLeft" /\ isActive) =>
              EngineNext = PreviousStep(Engine)]_vars

(* ArrowRight was pressed on an idle engine with a timer still pending *)
C33_Witness ==
    /\ lastOp = "key:ArrowRight"
    /\ ~pre.isActive
    /\ ~isActive
    /\ timers # <<>>

(* C39: an idle engine has no steps, index 0 and an empty history.         *)
C39_IdleIsReset ==
    ~isActive => (steps = <<>> /\ currentStep = 0 /\ guideHistory = <<>>)

(* a continuation scheduled before stop() has resumed on the idle engine *)
C39_Witness ==
    /\ ~isActive
    /\ lastOp \in {"timer:settle", "timer:skip"}
    /\ Val(pre.fired)
    /\ ~pre.isActive
    /\ steps = <<>>

C32_ActionErrorsAreCaught ==
    call.fn = "executeAction" =>
        /\ ~call.after.threw
        /\ \A f \in {"isActive", "currentStep", "steps", "guideHistory",
                     "dom", "overlayElement", "highlightElement",
                     "messageElement", "pointerElement", "controlsElement",
                     "indicatorElement", "timers"} :
               call.after[f] = call.succeeded[f]
        /\ call.after.isActive = call.before.isActive
        /\ call.after.dom = call.before.dom

(* the click() of a page element threw *)
C32_Witness ==
    /\ call.fn = "executeAction"
    /\ call.fails
    /\ call.action = "click"
    /\ call.element # NoElement
    /\ call.after.dispatched # call.succeeded.dispatched

(* the k-th phrase list has a phrase occurring in the lower-cased query *)
ListMatches(k, query) ==
    \E phrase \in UserIntents[k].phrases :
        Includes(ToLowerCase(query.chars), phrase)

(* C34: detectIntent returns the intent of the first of the lists          *)
(* find_element, do_action, fix_error, explain that has a phrase occurring *)
(* in the lower-cased query, and general when none has.                    *)
C34_IntentOfFirstMatchingList ==
    (call.fn = "detectIntent" /\ call.query.type = "string") =>
        /\ [k \in 1..Len(UserIntents) |-> UserIntents[k].intent] =
               <<"find_element", "do_action", "fix_error", "explain">>
        /\ \A k \in 1..Len(UserIntents) :
               (ListMatches(k, call.query)
                  /\ \A j \in 1..(k - 1) : ~ListMatches(j, call.query)) =>
                   call.result = Ok(UserIntents[k].intent)
        /\ (\A k \in 1..Len(UserIntents) : ~ListMatches(k, call.query)) =>
               call.result = Ok("general")

(* a query with an explain phrase before a find_element phrase *)
C34_Witness ==
    /\ call.fn = "detectIntent"
    /\ call.query = StringValue(<<"w", "h", "y", " ", "f", "i", "n", "d">>)
    /\ ListMatches(1, call.query)
    /\ ListMatches(4, call.query)
    /\ call.result = Ok("find_element")

NoRepeat(list) ==
    \A i, j \in 1..Len(list) : list[i] = list[j] => i = j

NodesOf(list) == {list[i] : i \in 1..Len(list)}

(* C35: every node the scan found is in the list findRelevantElements      *)
(* returns exactly once, however many keywords and element pools it        *)
(* matched, and no node is twice in the result of analyzeForQuery.         *)
C35_CandidatesAreDistinct ==
    call.fn = "analyzeForQuery" =>
        /\ NoRepeat(call.elements)
        /\ NodesOf(call.elements) = NodesOf(call.scanned)
        /\ NoRepeat([i \in 1..Len(call.result.value) |->
                        call.result.value[i].node])

(* the scan found a node for two keywords and another in two pools *)
C35_Witness ==
    /\ call.fn = "analyzeForQuery"
    /\ Len(call.elements) >= 2
    /\ Len(call.scanned) > Len(call.elements) + 1
    /\ \E i, j \in 1..Len(call.scanned) :
           /\ i < j
           /\ call.scanned[i] = call.scanned[j]
           /\ InPool(call.page[call.scanned[i]], 3)
           /\ InPool(call.page[call.scanned[i]], 5)

(* where the scan found a node first *)
FirstFound(node) ==
    CHOOSE i \in 1..Len(call.scanned) :
        /\ call.scanned[i] = node
        /\ \A j \in 1..(i - 1) : call.scanned[j] # node

ClickableNode(node) == IsElementClickable(call.page[node])

(* C36: in the list findRelevantElements returns no non-clickable element  *)
(* stands before a clickable one, and two elements of the same kind stand  *)
(* in the order in which the scan first found them.                        *)
C36_ClickableFirstStable ==
    call.fn = "analyzeForQuery" =>
        \A i, j \in 1..Len(call.elements) :
            i < j =>
                /\ ClickableNode(call.elements[j]) =>
                       ClickableNode(call.elements[i])
                /\ (ClickableNode(call.elements[i])
                      = ClickableNode(call.elements[j])) =>
                       FirstFound(call.elements[i]) < FirstFound(call.elements[j])

(* the sort moved a clickable element ahead of a non-clickable one found   *)
(* before it, with two elements of each kind in the list                   *)
C36_Witness ==
    /\ call.fn = "analyzeForQuery"
    /\ \E i, j \in 1..Len(call.elements) :
           /\ i < j
           /\ FirstFound(call.elements[i]) > FirstFound(call.elements[j])
    /\ \E i, j \in 1..Len(call.elements) :
           i < j /\ ClickableNode(call.elements[i])
                 /\ ClickableNode(call.elements[j])
    /\ \E i, j \in 1..Len(call.elements) :
           i < j /\ ~ClickableNode(call.elements[i])
                 /\ ~ClickableNode(call.elements[j])

(* getElementMetadata throws inside for this node: its className is an     *)
(* object (SVG), which has no split                                        *)
MetadataThrows(node) ==
    call.page[node].className # <<>> /\ ~call.page[node].classNameIsString

(* C37: the result of analyzeForQuery holds a snapshot for each of the     *)
(* first ten candidates whose metadata extraction does not throw, in       *)
(* order, and no entry for one whose extraction throws.                    *)
C37_FailedCandidateIsDropped ==
    (call.fn = "analyzeForQuery" /\ call.query.type = "string") =>
        LET top == Slice(call.elements, ResultLimit)
            Kept(node) == ~MetadataThrows(node)
            out == call.result.value
        IN  /\ ~call.result.threw
            /\ [i \in 1..Len(out) |-> out[i].node] = SelectSeq(top, Kept)
            /\ \A i \in 1..Len(out) : ~IsNull(out[i].snapshot)

(* the cache held a structure younger than CacheTimeout when the last      *)
(* getPageStructure() was made                                             *)
CacheWasFresh ==
    /\ call.before # Null
    /\ call.at - Val(call.before).timestamp < CacheTimeout

(* C38: a getPageStructure() call made less than 5000 ms after the cached  *)
(* structure was computed returns the cached structure and computes        *)
(* nothing; a call made 5000 ms or more after it, or with no cached        *)
(* structure (first call, after clearCache, after a failed computation),   *)
(* builds the structure from the page as it is now, caches it with the     *)
(* time of the call, or returns {} and leaves the cache when building      *)
(* fails.  The cache never holds a structure stamped in the future, so a   *)
(* structure returned from it is less than 5000 ms old.                    *)
C38_CachedStructureIsYoung ==
    /\ pageStructureCache # Null => Val(pageStructureCache).timestamp <= now
    /\ call.fn = "getPageStructure" =>
          /\ CacheWasFresh =>
                /\ call.result = Val(call.before).data
                /\ call.after = call.before
                /\ 0 <= call.at - Val(call.before).timestamp
                /\ call.at - Val(call.before).timestamp < CacheTimeout
          /\ (~CacheWasFresh /\ ~call.fails) =>
                /\ call.result = PageStructure(call.page)
                /\ call.after = Some([data |-> PageStructure(call.page),
                                      timestamp |-> call.at])
          /\ (~CacheWasFresh /\ call.fails) =>
                /\ call.result = EmptyObject
                /\ call.after = call.before

(* a structure 4999 ms old was served from the cache although the page had *)
(* changed since                                                           *)
C38_Witness ==
    /\ call.fn = "getPageStructure"
    /\ CacheWasFresh
    /\ call.at - Val(call.before).timestamp = CacheTimeout - 1
    /\ call.result # PageStructure(call.page)

====
